---- MODULE Spec2Model ----
(***************************************************************************)
(* The problem-submission pipeline of the learning application:            *)
(*   - the client hook useProblemSubmission (submitProblem, the detached   *)
(*     polling loop pollForCompletion/poll, clearResult),                  *)
(*   - the edge function submit-problem (serve) that persists a            *)
(*     problem_submissions row, calls the AI backend and writes the        *)
(*     terminal status.                                                    *)
(* Strings whose content the code inspects (titles, contents, identifiers) *)
(* are sequences of one-character strings, so that trim() and the UUID     *)
(* regular expression are computed and not assumed.                        *)
(***************************************************************************)
EXTENDS Integers, Sequences, FiniteSets, TLC

\* ------------------------------------------------------------------ bounds
MaxCalls == 1        \* submitProblem calls made on one hook instance
MaxRequests == 1     \* requests served by the edge function
MaxLoops == 2        \* submitProblem calls made concurrently (SpecConcurrent)
MaxAdds == 2         \* addTodo calls on the todo screen
MaxFetches == 2      \* fetchTodos calls on the todo screen

\* ------------------------------------------------------- program constants
maxAttempts == 60

\* ------------------------------------------------------------ JS values
Undefined == <<"undefined">>          \* an absent string-valued field
NoResult == [tag |-> "null"]          \* result === null
NoError == "<null>"                   \* error === null
NoSession == [tag |-> "null"]         \* session === null
NoUser == [tag |-> "null"]            \* user === null
NoData == [tag |-> "none"]            \* locals of a call that is not running

\* JS truthiness of an optional string: undefined and "" are falsy.
Truthy(s) == s # Undefined /\ s # <<>>

RECURSIVE TrimLeft(_)
TrimLeft(s) == IF s # <<>> /\ Head(s) = " " THEN TrimLeft(Tail(s)) ELSE s

RECURSIVE TrimRight(_)
TrimRight(s) ==
    IF s # <<>> /\ s[Len(s)] = " " THEN TrimRight(SubSeq(s, 1, Len(s) - 1)) ELSE s

\* String.prototype.trim
Trim(s) == TrimRight(TrimLeft(s))

\* s?.trim()
OptTrim(s) == IF s = Undefined THEN Undefined ELSE Trim(s)

HexDigits == {"0","1","2","3","4","5","6","7","8","9",
              "a","b","c","d","e","f","A","B","C","D","E","F"}

\* /^[0-9a-f]{8}-[0-9a-f]{4}-[0-9a-f]{4}-[0-9a-f]{4}-[0-9a-f]{12}$/i
isValidUUID(uuid) ==
    /\ Len(uuid) = 36
    /\ \A i \in 1..36 :
         IF i \in {9, 14, 19, 24} THEN uuid[i] = "-" ELSE uuid[i] \in HexDigits

Digit(n) == <<"0","1","2","3","4","5","6","7","8","9">>[(n % 10) + 1]

UuidPrefix ==
    <<"1","2","3","e","4","5","6","7","-","e","8","9","b","-","4","2","d","3","-",
      "a","4","5","6","-","4","2","6","6","1","4","1","7","4","0">>

\* identifiers met by the client
UserId1 == UuidPrefix \o <<"0","0">>             \* a signed-in user's UUID
BadUserId == <<"g","u","e","s","t">>             \* an id that is not a UUID
OtherUserId == UuidPrefix \o <<"0","9">>         \* the UUID of some other user
ProblemIdOf(c) == UuidPrefix \o <<"1", Digit(c)>>   \* the row created for call c
BadProblemId == <<"4","2">>                      \* a malformed problemId

Calls == 1..MaxCalls

Users == {NoUser} \cup [id : {Undefined, UserId1, BadUserId}, isGuest : BOOLEAN]

\* a signed-in user
SignedInUser == [id |-> UserId1, isGuest |-> FALSE]

\* user?.id and user?.isGuest
UserIdOf(u) == IF u = NoUser THEN Undefined ELSE u.id
IsGuestUser(u) == u # NoUser /\ u.isGuest

\* ------------------------------------------------------------ state
VARIABLES
    isSubmitting,     \* useState(false)
    result,           \* useState<ProblemResult | null>(null)
    error,            \* useState<string | null>(null)
    firstUser,        \* user of the first render, closed over by pollForCompletion
    call,             \* per submitProblem call: position and locals
    sessionLookups,   \* per call: supabase.auth.getSession() calls it made
    invokes,          \* per call: supabase.functions.invoke('submit-problem') calls
    loop,             \* per call: the polling loop it started
    handler,          \* edge function: per request, position and locals
    submissions,      \* table problem_submissions, by id
    users,            \* table users: ids of the guest rows inserted
    sessions,         \* table learning_sessions: ids of the rows inserted
    auditLog,         \* table audit_logs: rows in insertion order
    aiCalls,          \* per request: calls made to the AI backend
    lastRead,         \* the last SELECT on problem_submissions made with a user's token
    todos,            \* todo screen: useState<Todo[]>([])
    newTodoTitle,     \* todo screen: useState('')
    loading,          \* todo screen: useState(true)
    screenUser,       \* todo screen: user of useAuth() at the current render
    todosTable,       \* table todos, newest row first
    adding,           \* per addTodo call: position, closure and inserted row
    fetching          \* per fetchTodos call: position and the rows selected

hookVars == <<isSubmitting, result, error, firstUser, call, sessionLookups, invokes, loop>>

handlerVars == <<handler, submissions, users, sessions, auditLog, aiCalls, lastRead>>

todoVars == <<todos, newTodoTitle, loading, screenUser, todosTable, adding, fetching>>

vars == <<hookVars, handlerVars, todoVars>>

\* opaque text (never inspected by the client): TLA+ strings, "undefined" if absent
Undef == "undefined"
TruthyText(t) == t # Undef /\ t # ""

NotReturned == <<"running">>
NullRet == <<"null">>

\* ---------------------------------------------------------- inputs
Img == <<"i">>
Voice == <<"v">>

\* titles: "", "  ", "a", " a "
Titles == {<<>>, <<" ", " ">>, <<"a">>, <<" ", "a", " ">>}

\* the content fields: nothing, " ", "a " (text only), an image only, a voice
\* recording only, text and image together
Contents ==
    {[textContent |-> Undefined, imageData |-> Undefined, voiceUrl |-> Undefined],
     [textContent |-> <<" ">>, imageData |-> Undefined, voiceUrl |-> Undefined],
     [textContent |-> <<"a", " ">>, imageData |-> Undefined, voiceUrl |-> Undefined],
     [textContent |-> Undefined, imageData |-> Img, voiceUrl |-> Undefined],
     [textContent |-> Undefined, imageData |-> Undefined, voiceUrl |-> Voice],
     [textContent |-> <<"a", " ">>, imageData |-> Img, voiceUrl |-> Undefined]}

SubmissionData ==
    {[title |-> t, inputType |-> <<"text">>, textContent |-> k.textContent,
      imageData |-> k.imageData, voiceUrl |-> k.voiceUrl, description |-> Undefined] :
        t \in Titles, k \in Contents}

Token == "tok"

\* what supabase.auth.getSession() resolves to
SessionOutcomes ==
    {[session |-> NoSession, error |-> TRUE]}
    \cup [session : {NoSession, [access_token |-> Token], [access_token |-> ""]},
          error : {FALSE}]

LiveSession(session) == session # NoSession /\ session.access_token # ""

\* ------------------------------------------------- submitProblem
IdleCall == [pc |-> "idle", data |-> NoData, user |-> NoUser, isAuthenticated |-> FALSE,
             reply |-> NoData, session |-> NoSession, req |-> NoData, ret |-> NotReturned]

\* a call that has returned; its locals are gone (the user of the render that
\* made a successful call is kept, to state whose submission its loop polls)
Returned(ret) == [IdleCall EXCEPT !.pc = "returned", !.ret = ret]

\* (variant: the title is tested without trim())
ValidationError_NoTrim(data) ==
    IF ~Truthy(data.title) THEN "Problem title is required"
    ELSE IF ~Truthy(OptTrim(data.textContent))
            /\ ~Truthy(data.imageData) /\ ~Truthy(data.voiceUrl)
         THEN "Problem content is required"
         ELSE ""

\* lines 52-63: the validation message, or "" when the data passes
ValidationError(data) ==
    IF ~Truthy(Trim(data.title)) THEN "Problem title is required"
    ELSE IF ~Truthy(OptTrim(data.textContent))
            /\ ~Truthy(data.imageData) /\ ~Truthy(data.voiceUrl)
         THEN "Problem content is required"
         ELSE ""

\* (variant: with a live session the user's id is used unvalidated)
ResolveIdentity_AnyId(session, user, isAuth) ==
    IF LiveSession(session)
    THEN IF Truthy(UserIdOf(user))
         THEN [ok |-> TRUE, userId |-> UserIdOf(user),
               authHeaders |-> {<<"Authorization", "Bearer " \o session.access_token>>},
               branch |-> "session"]
         ELSE [ok |-> FALSE, message |-> "Invalid user session. Please sign in again."]
    ELSE IF isAuth /\ Truthy(UserIdOf(user))
         THEN IF ~isValidUUID(UserIdOf(user))
              THEN [ok |-> FALSE, message |-> "Invalid user session. Please sign in again."]
              ELSE [ok |-> TRUE, userId |-> UserIdOf(user), authHeaders |-> {},
                    branch |-> "flag"]
         ELSE IF IsGuestUser(user)
              THEN [ok |-> TRUE, userId |-> Undefined, authHeaders |-> {},
                    branch |-> "guest"]
              ELSE [ok |-> FALSE, message |-> "Please sign in to submit problems"]

\* (variant: the client mints an identity for a guest)
ResolveIdentity_GuestId(session, user, isAuth) ==
    IF LiveSession(session)
    THEN IF Truthy(UserIdOf(user)) /\ isValidUUID(UserIdOf(user))
         THEN [ok |-> TRUE, userId |-> UserIdOf(user),
               authHeaders |-> {<<"Authorization", "Bearer " \o session.access_token>>},
               branch |-> "session"]
         ELSE [ok |-> FALSE, message |-> "Invalid user session. Please sign in again."]
    ELSE IF isAuth /\ Truthy(UserIdOf(user))
         THEN IF ~isValidUUID(UserIdOf(user))
              THEN [ok |-> FALSE, message |-> "Invalid user session. Please sign in again."]
              ELSE [ok |-> TRUE, userId |-> UserIdOf(user), authHeaders |-> {},
                    branch |-> "flag"]
         ELSE IF IsGuestUser(user)
              THEN [ok |-> TRUE, userId |-> OtherUserId, authHeaders |-> {},
                    branch |-> "guest"]
              ELSE [ok |-> FALSE, message |-> "Please sign in to submit problems"]

\* (variant: a caller who is neither signed in nor a guest is let through)
ResolveIdentity_OpenElse(session, user, isAuth) ==
    IF LiveSession(session)
    THEN IF Truthy(UserIdOf(user)) /\ isValidUUID(UserIdOf(user))
         THEN [ok |-> TRUE, userId |-> UserIdOf(user),
               authHeaders |-> {<<"Authorization", "Bearer " \o session.access_token>>},
               branch |-> "session"]
         ELSE [ok |-> FALSE, message |-> "Invalid user session. Please sign in again."]
    ELSE IF isAuth /\ Truthy(UserIdOf(user))
         THEN IF ~isValidUUID(UserIdOf(user))
              THEN [ok |-> FALSE, message |-> "Invalid user session. Please sign in again."]
              ELSE [ok |-> TRUE, userId |-> UserIdOf(user), authHeaders |-> {},
                    branch |-> "flag"]
         ELSE IF IsGuestUser(user)
              THEN [ok |-> TRUE, userId |-> Undefined, authHeaders |-> {},
                    branch |-> "guest"]
              ELSE [ok |-> TRUE, userId |-> Undefined, authHeaders |-> {},
                    branch |-> "guest"]

\* lines 76-105: [ok, userId, authHeaders] or [ok |-> FALSE, message]
ResolveIdentity(session, user, isAuth) ==
    IF LiveSession(session)
    THEN IF Truthy(UserIdOf(user)) /\ isValidUUID(UserIdOf(user))
         THEN [ok |-> TRUE, userId |-> UserIdOf(user),
               authHeaders |-> {<<"Authorization", "Bearer " \o session.access_token>>},
               branch |-> "session"]
         ELSE [ok |-> FALSE, message |-> "Invalid user session. Please sign in again."]
    ELSE IF isAuth /\ Truthy(UserIdOf(user))
         THEN IF ~isValidUUID(UserIdOf(user))
              THEN [ok |-> FALSE, message |-> "Invalid user session. Please sign in again."]
              ELSE [ok |-> TRUE, userId |-> UserIdOf(user), authHeaders |-> {},
                    branch |-> "flag"]
         ELSE IF IsGuestUser(user)
              THEN [ok |-> TRUE, userId |-> Undefined, authHeaders |-> {},
                    branch |-> "guest"]
              ELSE [ok |-> FALSE, message |-> "Please sign in to submit problems"]

\* the earlier revision of the hook, which looks up no session: the identity
\* is resolved from the authentication flag and the guest flag alone
LegacyResolveIdentity(user, isAuth) ==
    IF isAuth /\ Truthy(UserIdOf(user))
    THEN IF ~isValidUUID(UserIdOf(user))
         THEN [ok |-> FALSE, message |-> "Invalid user session. Please sign in again."]
         ELSE [ok |-> TRUE, userId |-> UserIdOf(user), authHeaders |-> {},
               branch |-> "flag"]
    ELSE IF IsGuestUser(user)
         THEN [ok |-> TRUE, userId |-> Undefined, authHeaders |-> {}, branch |-> "guest"]
         ELSE [ok |-> FALSE, message |-> "Please sign in to submit problems"]

\* (variant: the title is sent as typed)
RequestBody_RawTitle(data, userId) ==
    [input_type |-> data.inputType,
     title |-> data.title,
     description |-> OptTrim(data.description),
     text_content |-> OptTrim(data.textContent),
     image_data |-> data.imageData,
     voice_url |-> data.voiceUrl,
     user_id |-> userId]

\* lines 108-116
RequestBody(data, userId) ==
    [input_type |-> data.inputType,
     title |-> Trim(data.title),
     description |-> OptTrim(data.description),
     text_content |-> OptTrim(data.textContent),
     image_data |-> data.imageData,
     voice_url |-> data.voiceUrl,
     user_id |-> userId]

\* functions.invoke sends JSON.stringify(body): undefined properties are dropped
Serialize(body) ==
    [k \in {f \in DOMAIN body : body[f] # Undefined} |-> body[k]]

\* lines 125-134: the options handed to supabase.functions.invoke
InvokeOptions(data, id) ==
    [body |-> Serialize(RequestBody(data, id.userId)), headers |-> id.authHeaders]

\* (variant: the catch block swallows the failure)
Fail_Silent(c, message) ==
    /\ error' = error
    /\ isSubmitting' = FALSE
    /\ call' = [call EXCEPT ![c] = Returned(NullRet)]

\* lines 219-236: catch + finally of submitProblem
Fail(c, message) ==
    /\ error' = message
    /\ isSubmitting' = FALSE
    /\ call' = [call EXCEPT ![c] = Returned(NullRet)]

\* lines 46-68: reset, validation, and the session lookup is issued
SubmitStart(c, data, user, isAuth) ==
    /\ call[c].pc = "idle"
    /\ \A d \in Calls : d < c => call[d].pc # "idle"
    /\ result' = NoResult
    /\ IF ValidationError(data) # ""
       THEN /\ error' = ValidationError(data)
            /\ isSubmitting' = FALSE
            /\ call' = [call EXCEPT ![c] = [Returned(NullRet) EXCEPT !.data = data]]
            /\ UNCHANGED sessionLookups
       ELSE /\ error' = NoError
            /\ isSubmitting' = TRUE
            /\ call' = [call EXCEPT ![c] = [IdleCall EXCEPT !.pc = "getSession",
                            !.data = data, !.user = user, !.isAuthenticated = isAuth]]
            /\ sessionLookups' = [sessionLookups EXCEPT ![c] = @ + 1]
    /\ UNCHANGED <<firstUser, invokes, loop>>
    /\ UNCHANGED <<handlerVars, todoVars>>

\* the promise of supabase.auth.getSession() settles
SessionReply(c, got) ==
    /\ call[c].pc = "getSession"
    /\ call' = [call EXCEPT ![c].pc = "gotSession", ![c].reply = got]
    /\ UNCHANGED <<isSubmitting, result, error, firstUser, sessionLookups, invokes, loop>>
    /\ UNCHANGED <<handlerVars, todoVars>>

\* lines 68-134: submitProblem resumes with the session; identity resolution;
\* the request is sent
SubmitSession(c) ==
    /\ call[c].pc = "gotSession"
    /\ LET got == call[c].reply
           id == ResolveIdentity(got.session, call[c].user, call[c].isAuthenticated) IN
       IF got.error
       THEN /\ Fail(c, "Authentication error. Please sign in again.")
            /\ UNCHANGED invokes
       ELSE IF ~id.ok
            THEN /\ Fail(c, id.message)
                 /\ UNCHANGED invokes
            ELSE /\ call' = [call EXCEPT ![c].pc = "invoke",
                                         ![c].reply = NoData,
                                         ![c].session = got.session,
                                         ![c].req = InvokeOptions(call[c].data, id)]
                 /\ invokes' = [invokes EXCEPT ![c] = @ + 1]
                 /\ UNCHANGED <<error, isSubmitting>>
    /\ UNCHANGED <<result, firstUser, sessionLookups, loop>>
    /\ UNCHANGED <<handlerVars, todoVars>>

\* ------------------------------------------------ endpoint responses
Statuses == {"pending", "processing", "completed", "error"}

MsgJWT == "JWT expired"
MsgAuthn == "Missing authentication header"
MsgNet == "Network request failed"
MsgUuid == "invalid input syntax for type uuid"

\* String.prototype.includes over the messages the environment produces
Includes(text, marker) ==
    marker \in (CASE text = MsgJWT -> {"JWT"}
                  [] text = MsgAuthn -> {"authentication"}
                  [] text = MsgUuid -> {"invalid input syntax for type uuid"}
                  [] OTHER -> {})

SubmitErrors ==
    [name : {"FunctionsHttpError"}, status : {401, 403, 500}, message : {""}]
    \cup [name : {"FunctionsFetchError"}, status : {0}, message : {"", MsgJWT, MsgNet}]

Sol == "x = 4"

\* the JSON bodies the endpoint can answer a call with: accepted ones, and
\* refusals with or without error / details
ResponseData(c) ==
    [success : {TRUE},
     problemId : {Undefined, ProblemIdOf(c), BadProblemId},
     status : Statuses \cup {Undef},
     solution : {Undef, Sol},
     subject : {Undef},
     difficulty : {Undef},
     tags : {Undef},
     error : {Undef},
     details : {Undef}]
    \cup [success : {FALSE},
          problemId : {Undefined, ProblemIdOf(c)},
          status : {Undef},
          solution : {Undef},
          subject : {Undef},
          difficulty : {Undef},
          tags : {Undef},
          error : {Undef, "AI processing error: 500"},
          details : {Undef, "Secure processing failed"}]

NoResponse == [tag |-> "null"]

\* what supabase.functions.invoke resolves to: {data, error}
InvokeOutcomes(c) ==
    [data : {NoResponse}, error : SubmitErrors]
    \cup [data : {NoResponse} \cup ResponseData(c), error : {NoData}]

\* a || b on opaque text
OrText(a, b) == IF TruthyText(a) THEN a ELSE b

\* lines 139-168
SubmitErrorMessage(submitError) ==
    IF submitError.name = "FunctionsHttpError"
    THEN IF submitError.status = 401 THEN "Authentication failed. Please sign in again."
         ELSE IF submitError.status = 403
              THEN "Access denied. Please check your permissions."
              ELSE "AI service is temporarily unavailable. Please try again later."
    ELSE IF TruthyText(submitError.message)
         THEN IF \/ Includes(submitError.message, "Invalid or expired authentication token")
                 \/ Includes(submitError.message, "JWT")
                 \/ Includes(submitError.message, "authentication")
              THEN "Authentication expired. Please sign in again."
              ELSE submitError.message
         ELSE "Failed to submit problem to AI service"

\* (variant: the format of the returned problemId is not checked)
ResponseError_NoFormatCheck(got) ==
    IF got.error # NoData THEN SubmitErrorMessage(got.error)
    ELSE IF got.data = NoResponse THEN "No response received from AI service"
    ELSE IF ~got.data.success
         THEN "AI service error: "
                  \o OrText(got.data.error, OrText(got.data.details, "AI processing failed"))
    ELSE IF ~Truthy(got.data.problemId)
         THEN "Invalid response from AI service: missing problem ID"
    ELSE ""

\* lines 139-189: the message thrown for a response, or "" when it is accepted
ResponseError(got) ==
    IF got.error # NoData THEN SubmitErrorMessage(got.error)
    ELSE IF got.data = NoResponse THEN "No response received from AI service"
    ELSE IF ~got.data.success
         THEN "AI service error: "
                  \o OrText(got.data.error, OrText(got.data.details, "AI processing failed"))
    ELSE IF ~Truthy(got.data.problemId)
         THEN "Invalid response from AI service: missing problem ID"
    ELSE IF ~isValidUUID(got.data.problemId)
         THEN "Invalid response format from AI service"
    ELSE ""

\* lines 194-201
InitialResult(response) ==
    [id |-> response.problemId,
     status |-> OrText(response.status, "pending"),
     solution |-> response.solution,
     explanation |-> Undef,
     subject |-> response.subject,
     difficulty |-> response.difficulty,
     tags |-> response.tags,
     errorMessage |-> Undef]

\* (variant: every status but 'error' is polled)
StartsPolling_NotError(response) == response.status # "error"

\* (variant: 'pending' is forgotten)
StartsPolling_OnlyProcessing(response) ==
    /\ response.status # "completed"
    /\ response.status \in {"processing"}

\* lines 205-215: does submitProblem call pollForCompletion for this response
StartsPolling(response) ==
    /\ response.status # "completed"
    /\ response.status \in {"processing", "pending"}

\* ------------------------------------------------- pollForCompletion
NoLoop == [phase |-> "none", problemId |-> Undefined, attempts |-> 0, queries |-> 0,
           userFilter |-> Undefined, reply |-> NoData,
           timers |-> 0,            \* setTimeout(poll, ..) calls not yet fired
           outstanding |-> 0]       \* status queries issued and not yet settled

\* lines 239-241, 355: the closure of a new loop, its first timer armed
pollForCompletion(problemId) ==
    [NoLoop EXCEPT !.phase = "timer", !.problemId = problemId, !.timers = 1]

\* the promise of supabase.functions.invoke settles
InvokeReply(c, got) ==
    /\ call[c].pc = "invoke"
    /\ call' = [call EXCEPT ![c].pc = "gotResponse", ![c].reply = got]
    /\ UNCHANGED <<isSubmitting, result, error, firstUser, sessionLookups, invokes, loop>>
    /\ UNCHANGED <<handlerVars, todoVars>>

\* lines 134-217: submitProblem resumes with the endpoint's answer
SubmitResponse(c) ==
    /\ call[c].pc = "gotResponse"
    /\ LET got == call[c].reply IN
       IF ResponseError(got) # ""
       THEN /\ Fail(c, ResponseError(got))
            /\ UNCHANGED <<result, loop>>
       ELSE /\ result' = InitialResult(got.data)
            /\ loop' = IF StartsPolling(got.data)
                       THEN [loop EXCEPT ![c] = pollForCompletion(got.data.problemId)]
                       ELSE loop
            /\ call' = [call EXCEPT ![c] = [Returned(got.data.problemId) EXCEPT
                                                !.user = call[c].user]]
            /\ isSubmitting' = FALSE
            /\ UNCHANGED error
    /\ UNCHANGED <<firstUser, sessionLookups, invokes>>
    /\ UNCHANGED <<handlerVars, todoVars>>

\* ------------------------------------------------------ poll (one attempt)
NoAi == [tag |-> "null"]                       \* ai_response IS NULL

AiResponses ==
    {NoAi} \cup [error : {"", "ai error"}, message : {"", "ai message"},
                 suggested_tags : {Undef}]

\* the rows of problem_submissions a status query for call c's problem can return
Rows(c) ==
    [id : {ProblemIdOf(c)},
     user_id : {UserId1, OtherUserId},
     status : {"error"},
     solution : {""},
     explanation : {""},
     topic : {""},
     subject : {""},
     difficulty : {""},
     tags : {Undef},
     ai_response : AiResponses,
     error_message : {"", "row error"}]
    \cup [id : {ProblemIdOf(c)},
          user_id : {UserId1, OtherUserId},
          status : Statuses \ {"error"},
          solution : {"", Sol},
          explanation : {""},
          topic : {""},
          subject : {""},
          difficulty : {""},
          tags : {Undef},
          ai_response : {NoAi},
          error_message : {""}]

NoRow == [tag |-> "null"]

FetchErrors ==
    {[code |-> "PGRST116", message |-> "JSON object requested, multiple (or no) rows returned"],
     [code |-> "22P02", message |-> MsgUuid],
     [code |-> "PGRST301", message |-> MsgJWT],
     [code |-> "08006", message |-> MsgNet]}

\* what `await query.single()` does: it resolves to {data, error}, or it throws
QueryOutcomes(c, userFilter) ==
    [data : {NoRow}, error : FetchErrors, thrown : {""}]
    \cup [data : {NoRow} \cup {r \in Rows(c) : Truthy(userFilter) => r.user_id = userFilter},
          error : {NoData}, thrown : {""}]
    \cup [data : {NoRow}, error : {NoData}, thrown : {MsgNet}]

\* lines 268-282
FetchErrorMessage(fetchError) ==
    IF fetchError.code = "PGRST116" THEN "Problem not found or access denied."
    ELSE IF Includes(fetchError.message, "invalid input syntax for type uuid")
         THEN "Invalid problem ID format. Please try submitting again."
    ELSE IF Includes(fetchError.message, "JWT") \/ Includes(fetchError.message, "authentication")
         THEN "Authentication expired. Please sign in again."
    ELSE "Failed to check problem status: " \o fetchError.message

\* (variant: the row's error_message is preferred to the AI response's text)
DerivedErrorMessage_RowFirst(data) ==
    IF data.status = "error"
    THEN IF data.ai_response # NoAi
         THEN OrText(data.error_message,
                     OrText(data.ai_response.error,
                            OrText(data.ai_response.message, "Problem processing failed")))
         ELSE OrText(data.error_message, "Problem processing failed")
    ELSE Undef

\* lines 295-304: the error text derived from a fetched row
DerivedErrorMessage(data) ==
    IF data.status = "error"
    THEN IF data.ai_response # NoAi
         THEN OrText(data.ai_response.error,
                     OrText(data.ai_response.message,
                            OrText(data.error_message, "Problem processing failed")))
         ELSE OrText(data.error_message, "Problem processing failed")
    ELSE Undef

\* lines 306-315
DerivedTags(data) ==
    IF data.ai_response # NoAi /\ data.ai_response.suggested_tags # Undef
    THEN data.ai_response.suggested_tags
    ELSE data.tags

\* lines 317-326
NewResult(data) ==
    [id |-> data.id,
     status |-> data.status,
     solution |-> OrText(data.solution, Undef),
     explanation |-> OrText(data.explanation, OrText(data.solution, Undef)),
     subject |-> OrText(data.topic, OrText(data.subject, Undef)),
     difficulty |-> OrText(data.difficulty, Undef),
     tags |-> DerivedTags(data),
     errorMessage |-> DerivedErrorMessage(data)]

\* (variant: a failed attempt is retried)
Stopped_Retry(l) ==
    [l EXCEPT !.phase = "timer", !.userFilter = Undefined, !.reply = NoData, !.timers = 1]

Stopped(l) == [l EXCEPT !.phase = "stopped", !.userFilter = Undefined, !.reply = NoData]

\* (variant: attempts <= maxAttempts)
NextAttempt_OffByOne(l) ==
    IF l.attempts + 1 <= maxAttempts
    THEN [l EXCEPT !.phase = "timer", !.attempts = @ + 1, !.userFilter = Undefined,
                   !.reply = NoData, !.timers = @ + 1]
    ELSE [Stopped(l) EXCEPT !.attempts = @ + 1]

\* lines 339-346: attempts++, then the next timer or the timeout
NextAttempt(l) ==
    IF l.attempts + 1 < maxAttempts
    THEN [l EXCEPT !.phase = "timer", !.attempts = @ + 1, !.userFilter = Undefined,
                   !.reply = NoData, !.timers = @ + 1]
    ELSE [Stopped(l) EXCEPT !.attempts = @ + 1]

\* (variant: the problem identifier is one variable shared by all loops)
PollTimer_SharedId(c) ==
    /\ loop[c].phase = "timer"
    /\ loop' = [d \in DOMAIN loop |->
                  IF d = c THEN [loop[c] EXCEPT !.phase = "session", !.timers = @ - 1]
                  ELSE [loop[d] EXCEPT !.problemId = loop[c].problemId]]
    /\ UNCHANGED error
    /\ UNCHANGED <<isSubmitting, result, firstUser, call, sessionLookups, invokes>>
    /\ UNCHANGED <<handlerVars, todoVars>>

\* lines 243-253: a timer of the loop fires; poll runs up to `await getSession()`
PollTimer(c) ==
    /\ loop[c].phase = "timer"
    /\ IF ~isValidUUID(loop[c].problemId)
       THEN /\ loop' = [loop EXCEPT ![c] = [Stopped(@) EXCEPT !.timers = @ - 1]]
            /\ error' = "Failed to check problem status: Invalid problem ID format for polling"
       ELSE /\ loop' = [loop EXCEPT ![c].phase = "session", ![c].timers = @ - 1]
            /\ UNCHANGED error
    /\ UNCHANGED <<isSubmitting, result, firstUser, call, sessionLookups, invokes>>
    /\ UNCHANGED <<handlerVars, todoVars>>

\* the promise of supabase.auth.getSession() settles (its error is not read)
PollSessionReply(c, session) ==
    /\ loop[c].phase = "session"
    /\ loop' = [loop EXCEPT ![c].phase = "gotSession", ![c].reply = session]
    /\ UNCHANGED <<isSubmitting, result, error, firstUser, call, sessionLookups, invokes>>
    /\ UNCHANGED <<handlerVars, todoVars>>

\* (variant: the next attempt is scheduled when the query is issued)
PollSession_EagerTimer(c) ==
    /\ loop[c].phase = "gotSession"
    /\ loop' = [loop EXCEPT ![c].phase = "query",
                            ![c].queries = @ + 1,
                            ![c].outstanding = @ + 1,
                            ![c].timers = @ + 1,
                            ![c].reply = NoData,
                            ![c].userFilter =
                                IF loop[c].reply # NoSession /\ Truthy(UserIdOf(firstUser))
                                THEN UserIdOf(firstUser) ELSE Undefined]
    /\ UNCHANGED <<isSubmitting, result, error, firstUser, call, sessionLookups, invokes>>
    /\ UNCHANGED <<handlerVars, todoVars>>

\* lines 253-266: poll resumes with the session; the status query is built and issued
PollSession(c) ==
    /\ loop[c].phase = "gotSession"
    /\ loop' = [loop EXCEPT ![c].phase = "query",
                            ![c].queries = @ + 1,
                            ![c].outstanding = @ + 1,
                            ![c].reply = NoData,
                            ![c].userFilter =
                                IF loop[c].reply # NoSession /\ Truthy(UserIdOf(firstUser))
                                THEN UserIdOf(firstUser) ELSE Undefined]
    /\ UNCHANGED <<isSubmitting, result, error, firstUser, call, sessionLookups, invokes>>
    /\ UNCHANGED <<handlerVars, todoVars>>

\* the promise of query.single() settles
QueryReply(c, got) ==
    /\ loop[c].phase = "query"
    /\ loop' = [loop EXCEPT ![c].phase = "gotResult", ![c].reply = got,
                            ![c].outstanding = @ - 1]
    /\ UNCHANGED <<isSubmitting, result, error, firstUser, call, sessionLookups, invokes>>
    /\ UNCHANGED <<handlerVars, todoVars>>

\* lines 266-351: poll resumes with the outcome of the status query
PollResult(c) ==
    /\ loop[c].phase = "gotResult"
    /\ LET got == loop[c].reply IN
       IF got.thrown # ""
       THEN /\ error' = "Failed to check problem status: " \o got.thrown
            /\ loop' = [loop EXCEPT ![c] = Stopped(@)]
            /\ UNCHANGED result
       ELSE IF got.error # NoData
       THEN /\ error' = FetchErrorMessage(got.error)
            /\ loop' = [loop EXCEPT ![c] = Stopped(@)]
            /\ UNCHANGED result
       ELSE IF got.data = NoRow
       THEN /\ error' = "Problem not found. Please try submitting again."
            /\ loop' = [loop EXCEPT ![c] = Stopped(@)]
            /\ UNCHANGED result
       ELSE /\ result' = NewResult(got.data)
            /\ IF got.data.status \in {"completed", "error"}
               THEN /\ loop' = [loop EXCEPT ![c] = Stopped(@)]
                    /\ error' = IF got.data.status = "error"
                                THEN OrText(DerivedErrorMessage(got.data),
                                            "Problem processing failed")
                                ELSE error
               ELSE /\ loop' = [loop EXCEPT ![c] = NextAttempt(@)]
                    /\ error' = IF loop[c].attempts + 1 < maxAttempts
                                THEN error
                                ELSE "Problem processing timed out. Please try again."
    /\ UNCHANGED <<isSubmitting, firstUser, call, sessionLookups, invokes>>
    /\ UNCHANGED <<handlerVars, todoVars>>

\* (variant: clearing the result also cancels the polling loops)
clearResult_Cancels ==
    /\ result' = NoResult
    /\ error' = NoError
    /\ loop' = [c \in DOMAIN loop |->
                  IF loop[c].phase \in {"none", "stopped"} THEN loop[c]
                  ELSE [Stopped(loop[c]) EXCEPT !.timers = 0, !.outstanding = 0]]
    /\ UNCHANGED <<isSubmitting, firstUser, call, sessionLookups, invokes>>
    /\ UNCHANGED <<handlerVars, todoVars>>

\* lines 358-361
clearResult ==
    /\ result' = NoResult
    /\ error' = NoError
    /\ UNCHANGED <<isSubmitting, firstUser, call, sessionLookups, invokes, loop>>
    /\ UNCHANGED <<handlerVars, todoVars>>

\* =================================================== edge function (serve)
\* Text the handler sanitizes is a sequence of tokens: the markup the regular
\* expressions of sanitizeInput look for, blanks and plain characters.
validateUUID(uuid) ==
    /\ Len(uuid) = 36
    /\ \A i \in 1..36 :
         IF i \in {9, 14, 19, 24} THEN uuid[i] = "-" ELSE uuid[i] \in HexDigits

\* index of the first closing tag of s, 0 if none
RECURSIVE FirstClose(_, _)
FirstClose(s, i) ==
    IF i > Len(s) THEN 0 ELSE IF s[i] = "</script>" THEN i ELSE FirstClose(s, i + 1)

\* .replace(/<script\b[^<]*(?:(?!<\/script>)<[^<]*)*<\/script>/gi, '')
RECURSIVE RemoveScripts(_)
RemoveScripts(s) ==
    IF s = <<>> THEN <<>>
    ELSE IF Head(s) = "<script>" /\ FirstClose(s, 2) # 0
         THEN RemoveScripts(SubSeq(s, FirstClose(s, 2) + 1, Len(s)))
         ELSE <<Head(s)>> \o RemoveScripts(Tail(s))

\* .replace(/javascript:/gi, '') and .replace(/on\w+\s*=/gi, '')
RemoveToken(s, t) == SelectSeq(s, LAMBDA x : x # t)

sanitizeInput(input) ==
    Trim(RemoveToken(RemoveToken(RemoveScripts(input), "javascript:"), "onclick="))

Requests == 1..MaxRequests

TestUserId == <<"t","e","s","t","-","u","s","e","r","-","i","d">>
SessionId1 == UuidPrefix \o <<"2","0">>          \* a session id sent by a caller
NewSessionId(r) == UuidPrefix \o <<"3", Digit(r)>>   \* learning_sessions.id default
GuestIdOf(r) == UuidPrefix \o <<"4", Digit(r)>>

\* what generateUUID() can return to a request: any id of the pool
ProblemIdPool == {ProblemIdOf(i) : i \in Requests}
GuestIdPool == {GuestIdOf(i) : i \in Requests}

ScriptOnly == <<"<script>", "a", "</script>">>

\* the JSON bodies sent to the function
RequestBodies ==
    {[input_type |-> it, title |-> ti, text_content |-> tc, user_id |-> u, session_id |-> se] :
        it \in {Undefined, <<"text">>, <<"image">>},
        ti \in {Undefined, <<"a">>},
        tc \in {Undefined, <<"a">>, ScriptOnly},
        u \in {Undefined, UserId1, TestUserId},
        se \in {Undefined, SessionId1, BadProblemId}}

NoSubmission == [tag |-> "null"]

NoRead == [tag |-> "none"]

IdleHandler ==
    [pc |-> "idle", body |-> NoData, userId |-> Undefined, sessionId |-> Undefined,
     problemId |-> Undefined, solution |-> Undefined, response |-> NoData]

HandlerInit ==
    /\ handler = [r \in Requests |-> IdleHandler]
    /\ submissions = [id \in ProblemIdPool |-> NoSubmission]
    /\ users = {}
    /\ sessions = {}
    /\ auditLog = <<>>
    /\ aiCalls = [r \in Requests |-> 0]
    /\ lastRead = NoRead

\* lines 471-489: the catch block's response
CatchResponse(message) ==
    [status |-> 500,
     body |-> [success |-> FALSE, error |-> message, details |-> "Secure processing failed"]]

\* (variant: the AI failure is answered with status 200)
AiFailureResponse_Ok200(status, message, problemId) ==
    [status |-> 200,
     body |-> [success |-> FALSE, error |-> message, problemId |-> problemId]]

\* lines 234-245 and 343-354
AiFailureResponse(status, message, problemId) ==
    [status |-> status,
     body |-> [success |-> FALSE, error |-> message, problemId |-> problemId]]

\* (variant: the handler answers before the AI call has completed the row)
SuccessResponse_Processing(h) ==
    [status |-> 200,
     body |-> [success |-> TRUE, problemId |-> h.problemId, sessionId |-> h.sessionId,
               status |-> "processing", solution |-> h.solution, subject |-> "General",
               difficulty |-> "medium", tags |-> "learning,education,general"]]

\* lines 449-469
SuccessResponse(h) ==
    [status |-> 200,
     body |-> [success |-> TRUE, problemId |-> h.problemId, sessionId |-> h.sessionId,
               status |-> "completed", solution |-> h.solution, subject |-> "General",
               difficulty |-> "medium", tags |-> "learning,education,general"]]

Respond(r, response) ==
    handler' = [handler EXCEPT ![r].pc = "responded", ![r].response = response]

\* (variant: the format of user_id is not checked)
RequestError_NoUserIdCheck(body) ==
    IF ~Truthy(body.input_type) \/ ~Truthy(body.title)
    THEN "Missing required fields: input_type and title are required"
    ELSE IF body.input_type = <<"text">>
            /\ ~(Truthy(body.text_content) /\ Truthy(sanitizeInput(body.text_content)))
         THEN "text_content is required for text input type"
    ELSE IF Truthy(body.session_id) /\ ~validateUUID(body.session_id)
         THEN "Invalid session ID format"
    ELSE ""

\* lines 81-106: the message thrown for a request body, or "" when it is accepted
RequestError(body) ==
    IF ~Truthy(body.input_type) \/ ~Truthy(body.title)
    THEN "Missing required fields: input_type and title are required"
    ELSE IF body.input_type = <<"text">>
            /\ ~(Truthy(body.text_content) /\ Truthy(sanitizeInput(body.text_content)))
         THEN "text_content is required for text input type"
    ELSE IF Truthy(body.user_id) /\ ~validateUUID(body.user_id)
         THEN "Invalid user ID format"
    ELSE IF Truthy(body.session_id) /\ ~validateUUID(body.session_id)
         THEN "Invalid session ID format"
    ELSE ""

\* lines 163-190: the insert of the submission row is issued
IssueInsert(r, h, problemId) ==
    handler' = [handler EXCEPT ![r] = [h EXCEPT !.pc = "insert", !.problemId = problemId]]

\* lines 134-157, first half: the session insert is issued, or skipped
AfterUser(r, h) ==
    IF ~Truthy(h.sessionId)
    THEN handler' = [handler EXCEPT ![r] = [h EXCEPT !.pc = "sessionInsert"]]
    ELSE \E problemId \in ProblemIdPool : IssueInsert(r, h, problemId)

\* lines 56-58: a CORS preflight request is answered before the try block
HandlerPreflight(r) ==
    /\ handler[r].pc = "idle"
    /\ \A q \in Requests : q < r => handler[q].pc # "idle"
    /\ Respond(r, [status |-> 200, body |-> [text |-> "ok"]])
    /\ UNCHANGED <<submissions, users, sessions, auditLog, aiCalls>>
    /\ UNCHANGED <<hookVars, lastRead, todoVars>>

\* lines 74-126: the request is read and validated; a guest identity is minted
HandlerReceive(r, body) ==
    /\ handler[r].pc = "idle"
    /\ \A q \in Requests : q < r => handler[q].pc # "idle"
    /\ LET h == [handler[r] EXCEPT !.body = body, !.userId = body.user_id,
                                   !.sessionId = body.session_id] IN
       IF RequestError(body) # ""
       THEN handler' = [handler EXCEPT ![r] =
                           [@ EXCEPT !.pc = "responded", !.body = body,
                                     !.response = CatchResponse(RequestError(body))]]
       ELSE IF ~Truthy(h.userId)
            THEN \E guestId \in GuestIdPool :
                    handler' = [handler EXCEPT ![r] =
                                   [h EXCEPT !.pc = "guestInsert", !.userId = guestId]]
            ELSE AfterUser(r, h)
    /\ UNCHANGED <<submissions, users, sessions, auditLog, aiCalls>>
    /\ UNCHANGED <<hookVars, lastRead, todoVars>>

\* lines 114-131: the guest insert settled; its error is only logged
HandlerGuestInserted(r, ok) ==
    /\ handler[r].pc = "guestInsert"
    /\ users' = IF ok /\ handler[r].userId \notin users
                THEN users \cup {handler[r].userId} ELSE users
    /\ AfterUser(r, handler[r])
    /\ UNCHANGED <<submissions, sessions, auditLog, aiCalls>>
    /\ UNCHANGED <<hookVars, lastRead, todoVars>>

\* lines 135-161: the session insert settled
HandlerSessionInserted(r, ok) ==
    /\ handler[r].pc = "sessionInsert"
    /\ IF ok
       THEN /\ sessions' = sessions \cup {NewSessionId(r)}
            /\ \E problemId \in ProblemIdPool :
                  IssueInsert(r, [handler[r] EXCEPT !.sessionId = NewSessionId(r)], problemId)
       ELSE /\ Respond(r, CatchResponse("Failed to create secure session"))
            /\ UNCHANGED sessions
    /\ UNCHANGED <<submissions, users, auditLog, aiCalls>>
    /\ UNCHANGED <<hookVars, lastRead, todoVars>>

NewSubmission(h) ==
    [user_id |-> h.userId, session_id |-> h.sessionId, status |-> "processing",
     solution |-> Undefined, error_message |-> ""]

\* lines 167-212: the submission insert settled (a taken id is refused by the
\* primary key); the creation audit insert is issued
HandlerInserted(r, ok) ==
    /\ handler[r].pc = "insert"
    /\ IF ok /\ submissions[handler[r].problemId] = NoSubmission
       THEN /\ submissions' = [submissions EXCEPT ![handler[r].problemId] =
                                   NewSubmission(handler[r])]
            /\ handler' = [handler EXCEPT ![r].pc = "auditCreated"]
       ELSE /\ Respond(r, CatchResponse("Failed to create secure problem submission"))
            /\ UNCHANGED submissions
    /\ UNCHANGED <<users, sessions, auditLog, aiCalls>>
    /\ UNCHANGED <<hookVars, lastRead, todoVars>>

AuditRow(h, action) == [action |-> action, resource_id |-> h.problemId]

\* .update({status: 'error', error_message}).eq('id', problemId)
ErrorUpdate(rows, id, message) ==
    IF rows[id] = NoSubmission THEN rows
    ELSE [rows EXCEPT ![id].status = "error", ![id].error_message = message]

\* .update({solution, status: 'completed', ...}).eq('id', problemId)
CompletedUpdate(rows, id, solution) ==
    IF rows[id] = NoSubmission THEN rows
    ELSE [rows EXCEPT ![id].status = "completed", ![id].solution = solution]

\* lines 198-232 and 281: the audit insert settled (its result is not read);
\* apiKey: is GOOGLE_API_KEY set. Without it the error update is issued,
\* otherwise the AI backend is called
HandlerAudited(r, ok, apiKey) ==
    /\ handler[r].pc = "auditCreated"
    /\ auditLog' = IF ok THEN Append(auditLog, AuditRow(handler[r], "problem_submission_created"))
                   ELSE auditLog
    /\ IF ~apiKey
       THEN /\ handler' = [handler EXCEPT ![r].pc = "updateNoKey"]
            /\ UNCHANGED aiCalls
       ELSE /\ handler' = [handler EXCEPT ![r].pc = "fetch"]
            /\ aiCalls' = [aiCalls EXCEPT ![r] = @ + 1]
    /\ UNCHANGED <<submissions, users, sessions>>
    /\ UNCHANGED <<hookVars, lastRead, todoVars>>

\* (variant: the missing key is thrown into the catch block)
HandlerNoKeyUpdated_Crash(r, ok) ==
    /\ handler[r].pc = "updateNoKey"
    /\ Respond(r, CatchResponse("GOOGLE_API_KEY not found"))
    /\ UNCHANGED <<submissions, users, sessions, auditLog, aiCalls>>
    /\ UNCHANGED <<hookVars, lastRead, todoVars>>

\* lines 221-245: the error update settled; 503
HandlerNoKeyUpdated(r, ok) ==
    /\ handler[r].pc = "updateNoKey"
    /\ submissions' = IF ok THEN ErrorUpdate(submissions, handler[r].problemId,
                                             "AI service temporarily unavailable")
                      ELSE submissions
    /\ Respond(r, AiFailureResponse(503, "AI service temporarily unavailable",
                                    handler[r].problemId))
    /\ UNCHANGED <<users, sessions, auditLog, aiCalls>>
    /\ UNCHANGED <<hookVars, lastRead, todoVars>>

\* the candidate texts of the AI backend; Undefined: no candidate text
AiTexts == {Undefined, <<"a">>, ScriptOnly}

\* what the fetch of the AI backend does: it throws, answers not-ok, answers
\* a body that is not JSON, or answers a JSON body
FetchOutcomes ==
    [kind : {"throws", "notOk", "badJson"}, text : {Undefined}]
    \cup [kind : {"ok"}, text : AiTexts]

\* lines 360-361
SanitizedSolution(text) ==
    sanitizeInput(IF Truthy(text) THEN text ELSE <<"No solution generated">>)

\* lines 281-415: the AI backend answered
HandlerFetched(r, got) ==
    /\ handler[r].pc = "fetch"
    /\ CASE got.kind = "throws" -> Respond(r, CatchResponse("fetch failed"))
         [] got.kind = "notOk" -> handler' = [handler EXCEPT ![r].pc = "updateAiError"]
         [] got.kind = "badJson" -> Respond(r, CatchResponse("Unexpected token in JSON"))
         [] got.kind = "ok" ->
                handler' = [handler EXCEPT ![r].pc = "updateCompleted",
                                           ![r].solution = SanitizedSolution(got.text)]
    /\ UNCHANGED <<submissions, users, sessions, auditLog, aiCalls>>
    /\ UNCHANGED <<hookVars, lastRead, todoVars>>

\* (variant: the return after the error update is missing)
HandlerAiErrorUpdated_FallThrough(r, ok) ==
    /\ handler[r].pc = "updateAiError"
    /\ submissions' = IF ok THEN ErrorUpdate(submissions, handler[r].problemId,
                                             "AI processing error: 500")
                      ELSE submissions
    /\ handler' = [handler EXCEPT ![r].pc = "updateCompleted",
                                  ![r].solution = SanitizedSolution(Undefined)]
    /\ UNCHANGED <<users, sessions, auditLog, aiCalls>>
    /\ UNCHANGED <<hookVars, lastRead, todoVars>>

\* lines 330-354: the error update settled; 500
HandlerAiErrorUpdated(r, ok) ==
    /\ handler[r].pc = "updateAiError"
    /\ submissions' = IF ok THEN ErrorUpdate(submissions, handler[r].problemId,
                                             "AI processing error: 500")
                      ELSE submissions
    /\ Respond(r, AiFailureResponse(500, "AI processing error: 500", handler[r].problemId))
    /\ UNCHANGED <<users, sessions, auditLog, aiCalls>>
    /\ UNCHANGED <<hookVars, lastRead, todoVars>>

\* lines 392-429: the completed update settled
HandlerCompletedUpdated(r, ok) ==
    /\ handler[r].pc = "updateCompleted"
    /\ IF ok
       THEN /\ submissions' = CompletedUpdate(submissions, handler[r].problemId,
                                              handler[r].solution)
            /\ handler' = [handler EXCEPT ![r].pc = "sessionStats"]
       ELSE /\ Respond(r, CatchResponse("Failed to update secure problem submission"))
            /\ UNCHANGED submissions
    /\ UNCHANGED <<users, sessions, auditLog, aiCalls>>
    /\ UNCHANGED <<hookVars, lastRead, todoVars>>

\* lines 423-445: the session statistics update settled; the completion audit
\* insert is issued
HandlerStatsUpdated(r) ==
    /\ handler[r].pc = "sessionStats"
    /\ handler' = [handler EXCEPT ![r].pc = "auditCompleted"]
    /\ UNCHANGED <<submissions, users, sessions, auditLog, aiCalls>>
    /\ UNCHANGED <<hookVars, lastRead, todoVars>>

\* lines 432-469: the completion audit insert settled; 200
HandlerCompleted(r, ok) ==
    /\ handler[r].pc = "auditCompleted"
    /\ auditLog' = IF ok THEN Append(auditLog, AuditRow(handler[r], "problem_submission_completed"))
                   ELSE auditLog
    /\ Respond(r, SuccessResponse(handler[r]))
    /\ UNCHANGED <<submissions, users, sessions, aiCalls>>
    /\ UNCHANGED <<hookVars, lastRead, todoVars>>

DoHandlerPreflight == \E r \in Requests : HandlerPreflight(r)
DoHandlerReceive == \E r \in Requests, body \in RequestBodies : HandlerReceive(r, body)
DoHandlerGuestInserted == \E r \in Requests, ok \in BOOLEAN : HandlerGuestInserted(r, ok)
DoHandlerSessionInserted == \E r \in Requests, ok \in BOOLEAN : HandlerSessionInserted(r, ok)
DoHandlerInserted == \E r \in Requests, ok \in BOOLEAN : HandlerInserted(r, ok)
DoHandlerAudited ==
    \E r \in Requests, ok \in BOOLEAN, apiKey \in BOOLEAN : HandlerAudited(r, ok, apiKey)
DoHandlerNoKeyUpdated == \E r \in Requests, ok \in BOOLEAN : HandlerNoKeyUpdated(r, ok)
DoHandlerFetched == \E r \in Requests, got \in FetchOutcomes : HandlerFetched(r, got)
DoHandlerAiErrorUpdated == \E r \in Requests, ok \in BOOLEAN : HandlerAiErrorUpdated(r, ok)
DoHandlerCompletedUpdated == \E r \in Requests, ok \in BOOLEAN : HandlerCompletedUpdated(r, ok)
DoHandlerStatsUpdated == \E r \in Requests : HandlerStatsUpdated(r)
DoHandlerCompleted == \E r \in Requests, ok \in BOOLEAN : HandlerCompleted(r, ok)

HandlerNext ==
    \/ DoHandlerPreflight
    \/ DoHandlerReceive
    \/ DoHandlerGuestInserted
    \/ DoHandlerSessionInserted
    \/ DoHandlerInserted
    \/ DoHandlerAudited
    \/ DoHandlerNoKeyUpdated
    \/ DoHandlerFetched
    \/ DoHandlerAiErrorUpdated
    \/ DoHandlerCompletedUpdated
    \/ DoHandlerStatsUpdated
    \/ DoHandlerCompleted

\* ------------------------------------------------------ the hook's behaviours
\* ============================================ status store (the migration)
\* tables on which the migration runs ALTER TABLE .. ENABLE ROW LEVEL SECURITY
RlsEnabledTables ==
    {"users", "learning_sessions", "media_uploads", "user_achievements",
     "learning_analytics", "audit_logs"}

\* CREATE POLICY "Users can access own problems" ON problem_submissions
\*   FOR ALL TO authenticated USING (auth.uid() = user_id)
OwnProblemsPolicy(uid, row) == uid = row.user_id

\* row level security of `table` after the migration; rlsBefore: was it
\* enabled on the table before (problem_submissions is created elsewhere)
RowSecurity(table, rlsBefore) == table \in RlsEnabledTables \/ rlsBefore

\* can the authenticated user uid read `row` of problem_submissions: policies
\* filter rows only on a table with row level security enabled
Readable(uid, row, rlsBefore) ==
    RowSecurity("problem_submissions", rlsBefore) => OwnProblemsPolicy(uid, row)

Readers == {UserId1, OtherUserId}

\* SELECT * FROM problem_submissions WHERE id = .. as the authenticated uid
Select(uid, id, rlsBefore) ==
    /\ lastRead' = [reader |-> uid,
                    row |-> IF submissions[id] # NoSubmission
                               /\ Readable(uid, submissions[id], rlsBefore)
                            THEN submissions[id] ELSE NoSubmission]
    /\ UNCHANGED <<handler, submissions, users, sessions, auditLog, aiCalls>>
    /\ UNCHANGED <<hookVars, todoVars>>

DoSelect ==
    \E uid \in Readers, id \in ProblemIdPool, rlsBefore \in BOOLEAN :
        Select(uid, id, rlsBefore)

\* ====================================================== todo screen
\* app/(tabs)/todo.tsx. A todo is its id and title; the table keeps the rows
\* in the order of `.order('created_at', { ascending: false })`.
Adds == 1..MaxAdds
Fetches == 1..MaxFetches

NoTodo == [tag |-> "null"]

TitleInputs == {<<>>, <<" ">>, <<"a">>}

IdleAdd == [pc |-> "idle", title |-> <<>>, todos |-> <<>>, row |-> NoTodo]
IdleFetch == [pc |-> "idle", data |-> <<>>, failed |-> FALSE]

TodoInit ==
    /\ todos = <<>>
    /\ newTodoTitle = <<>>
    /\ loading = TRUE
    /\ screenUser = NoUser
    /\ todosTable = <<>>
    /\ adding = [k \in Adds |-> IdleAdd]
    /\ fetching = [f \in Fetches |-> IdleFetch]

\* lines 20-30: useAuth() yields another user; the effect on [user] calls
\* fetchTodos when there is one, and the select is issued
UserChanged(u, f) ==
    /\ u # screenUser
    /\ screenUser' = u
    /\ IF u # NoUser
       THEN /\ fetching[f].pc = "idle"
            /\ \A g \in Fetches : g < f => fetching[g].pc # "idle"
            /\ loading' = TRUE
            /\ fetching' = [fetching EXCEPT ![f].pc = "select"]
       ELSE UNCHANGED <<loading, fetching>>
    /\ UNCHANGED <<todos, newTodoTitle, todosTable, adding>>
    /\ UNCHANGED <<hookVars, handlerVars>>

\* lines 27-30: the select settles with the rows of the table, or an error
FetchSelected(f, ok) ==
    /\ fetching[f].pc = "select"
    /\ fetching' = [fetching EXCEPT ![f] =
                       [pc |-> "gotData", data |-> IF ok THEN todosTable ELSE <<>>,
                        failed |-> ~ok]]
    /\ UNCHANGED <<todos, newTodoTitle, loading, screenUser, todosTable, adding>>
    /\ UNCHANGED <<hookVars, handlerVars>>

\* lines 32-37: fetchTodos resumes
FetchResumed(f) ==
    /\ fetching[f].pc = "gotData"
    /\ todos' = IF fetching[f].failed THEN todos ELSE fetching[f].data
    /\ loading' = FALSE
    /\ fetching' = [fetching EXCEPT ![f] = [IdleFetch EXCEPT !.pc = "done"]]
    /\ UNCHANGED <<newTodoTitle, screenUser, todosTable, adding>>
    /\ UNCHANGED <<hookVars, handlerVars>>

\* lines 58-60, 67-72: the input is rendered only when not loading
setNewTodoTitle(t) ==
    /\ ~loading
    /\ t # newTodoTitle
    /\ newTodoTitle' = t
    /\ UNCHANGED <<todos, loading, screenUser, todosTable, adding, fetching>>
    /\ UNCHANGED <<hookVars, handlerVars>>

\* line 41: if (!newTodoTitle.trim() || !user) return
SkipsInsert(title, user) == Trim(title) = <<>> \/ user = NoUser

\* lines 40-46: the Add button is pressed; addTodo of the current render runs
\* up to the insert, keeping the todos and title of that render
addTodo(k) ==
    /\ ~loading
    /\ adding[k].pc = "idle"
    /\ \A j \in Adds : j < k => adding[j].pc # "idle"
    /\ adding' = [adding EXCEPT ![k] =
                     IF SkipsInsert(newTodoTitle, screenUser)
                     THEN [IdleAdd EXCEPT !.pc = "returned", !.title = newTodoTitle]
                     ELSE [pc |-> "insert", title |-> newTodoTitle, todos |-> todos,
                           row |-> NoTodo]]
    /\ UNCHANGED <<todos, newTodoTitle, loading, screenUser, todosTable, fetching>>
    /\ UNCHANGED <<hookVars, handlerVars>>

\* lines 43-46: the insert settles: the new row, or an error
TodoInserted(k, ok) ==
    /\ adding[k].pc = "insert"
    /\ LET row == [id |-> Len(todosTable) + 1, title |-> adding[k].title] IN
       IF ok
       THEN /\ todosTable' = <<row>> \o todosTable
            /\ adding' = [adding EXCEPT ![k].pc = "gotInsert", ![k].row = row]
       ELSE /\ adding' = [adding EXCEPT ![k].pc = "gotInsert"]
            /\ UNCHANGED todosTable
    /\ UNCHANGED <<todos, newTodoTitle, loading, screenUser, fetching>>
    /\ UNCHANGED <<hookVars, handlerVars>>

\* lines 48-55: addTodo resumes
AddTodoResumed(k) ==
    /\ adding[k].pc = "gotInsert"
    /\ IF adding[k].row = NoTodo
       THEN UNCHANGED <<todos, newTodoTitle>>
       ELSE /\ todos' = <<adding[k].row>> \o adding[k].todos
            /\ newTodoTitle' = <<>>
    /\ adding' = [adding EXCEPT ![k].pc = "returned", ![k].todos = <<>>]
    /\ UNCHANGED <<loading, screenUser, todosTable, fetching>>
    /\ UNCHANGED <<hookVars, handlerVars>>

DoUserChanged == \E u \in {NoUser, SignedInUser}, f \in Fetches : UserChanged(u, f)
DoFetchSelected == \E f \in Fetches, ok \in BOOLEAN : FetchSelected(f, ok)
DoFetchResumed == \E f \in Fetches : FetchResumed(f)
DoSetNewTodoTitle == \E t \in TitleInputs : setNewTodoTitle(t)
DoAddTodo == \E k \in Adds : addTodo(k)
DoTodoInserted == \E k \in Adds, ok \in BOOLEAN : TodoInserted(k, ok)
DoAddTodoResumed == \E k \in Adds : AddTodoResumed(k)

TodoNext ==
    \/ DoUserChanged
    \/ DoFetchSelected
    \/ DoFetchResumed
    \/ DoSetNewTodoTitle
    \/ DoAddTodo
    \/ DoTodoInserted
    \/ DoAddTodoResumed

FirstUsers == {NoUser, [id |-> UserId1, isGuest |-> FALSE], [id |-> Undefined, isGuest |-> TRUE]}

Init ==
    /\ isSubmitting = FALSE
    /\ result = NoResult
    /\ error = NoError
    /\ firstUser \in FirstUsers
    /\ call = [c \in Calls |-> IdleCall]
    /\ sessionLookups = [c \in Calls |-> 0]
    /\ invokes = [c \in Calls |-> 0]
    /\ loop = [c \in Calls |-> NoLoop]
    /\ TodoInit
    /\ HandlerInit

DoSubmitStart ==
    \E c \in Calls, data \in SubmissionData, user \in Users, isAuth \in BOOLEAN :
        SubmitStart(c, data, user, isAuth)

DoSessionReply == \E c \in Calls, got \in SessionOutcomes : SessionReply(c, got)

DoSubmitSession == \E c \in Calls : SubmitSession(c)

DoInvokeReply == \E c \in Calls : \E got \in InvokeOutcomes(c) : InvokeReply(c, got)

DoSubmitResponse == \E c \in Calls : SubmitResponse(c)

DoPollTimer == \E c \in Calls : PollTimer(c)

DoPollSessionReply ==
    \E c \in Calls, session \in {NoSession, [access_token |-> Token]} :
        PollSessionReply(c, session)

DoPollSession == \E c \in Calls : PollSession(c)

DoQueryReply ==
    \E c \in Calls : \E got \in QueryOutcomes(c, loop[c].userFilter) : QueryReply(c, got)

DoPollResult == \E c \in Calls : PollResult(c)

Next ==
    \/ DoSubmitStart
    \/ DoSessionReply
    \/ DoSubmitSession
    \/ DoInvokeReply
    \/ DoSubmitResponse
    \/ DoPollTimer
    \/ DoPollSessionReply
    \/ DoPollSession
    \/ DoQueryReply
    \/ DoPollResult
    \/ clearResult

Spec == Init /\ [][Next]_vars

\* the edge function serving requests, on its own
SpecHandler == Init /\ [][HandlerNext]_vars

\* the hook with the scheduling of the event loop: an armed timer fires, a
\* settled promise resumes its continuation, and the session lookups of a
\* polling attempt settle
SpecLive ==
    /\ Init
    /\ [][Next]_vars
    /\ \A c \in Calls :
          /\ WF_vars(PollTimer(c))
          /\ WF_vars(\E session \in {NoSession, [access_token |-> Token]} :
                        PollSessionReply(c, session))
          /\ WF_vars(PollSession(c))

\* ------------------------------------------- concurrent submissions
\* MaxLoops calls on one hook instance, made by a signed-in user or by nobody,
\* with one valid submission, a live session, accepted answers of the endpoint
\* and status queries that return the caller's row, pending or completed.
ConcurrentCalls == 1..MaxLoops

ValidData ==
    [title |-> <<"a">>, inputType |-> <<"text">>, textContent |-> <<"a", " ">>,
     imageData |-> Undefined, voiceUrl |-> Undefined, description |-> Undefined]

AcceptedAnswers(c) ==
    {o \in InvokeOutcomes(c) :
        /\ ResponseError(o) = ""
        /\ o.data.status \in {"processing", "completed"}
        /\ o.data.solution = Undef}

RowAnswers(c, userFilter) ==
    {o \in QueryOutcomes(c, userFilter) :
        /\ o.thrown = "" /\ o.error = NoData /\ o.data # NoRow
        /\ o.data.user_id = UserId1
        /\ o.data.status \in {"pending", "completed"}
        /\ o.data.solution = ""}

InitConcurrent ==
    /\ isSubmitting = FALSE
    /\ result = NoResult
    /\ error = NoError
    /\ firstUser = NoUser
    /\ call = [c \in ConcurrentCalls |-> IdleCall]
    /\ sessionLookups = [c \in ConcurrentCalls |-> 0]
    /\ invokes = [c \in ConcurrentCalls |-> 0]
    /\ loop = [c \in ConcurrentCalls |-> NoLoop]
    /\ TodoInit
    /\ HandlerInit

CoSubmitStart ==
    \E c \in ConcurrentCalls, user \in {SignedInUser, NoUser} :
        SubmitStart(c, ValidData, user, user # NoUser)
CoSessionReply ==
    \E c \in ConcurrentCalls :
        SessionReply(c, [session |-> [access_token |-> Token], error |-> FALSE])
CoSubmitSession == \E c \in ConcurrentCalls : SubmitSession(c)
CoInvokeReply == \E c \in ConcurrentCalls : \E got \in AcceptedAnswers(c) : InvokeReply(c, got)
CoSubmitResponse == \E c \in ConcurrentCalls : SubmitResponse(c)
CoPollTimer == \E c \in ConcurrentCalls : PollTimer(c)
CoPollSessionReply ==
    \E c \in ConcurrentCalls : PollSessionReply(c, [access_token |-> Token])
CoPollSession == \E c \in ConcurrentCalls : PollSession(c)
CoQueryReply ==
    \E c \in ConcurrentCalls :
        \E got \in RowAnswers(c, loop[c].userFilter) : QueryReply(c, got)
CoPollResult == \E c \in ConcurrentCalls : PollResult(c)

NextConcurrent ==
    \/ CoSubmitStart
    \/ CoSessionReply
    \/ CoSubmitSession
    \/ CoInvokeReply
    \/ CoSubmitResponse
    \/ CoPollTimer
    \/ CoPollSessionReply
    \/ CoPollSession
    \/ CoQueryReply
    \/ CoPollResult

SpecConcurrent == InitConcurrent /\ [][NextConcurrent]_vars

\* the handler together with reads of the status store
StoreNext == HandlerNext \/ DoSelect

SpecStore == Init /\ [][StoreNext]_vars

SpecTodo == Init /\ [][TodoNext]_vars

\* ------------------------------------------- the hook against this handler
\* Call c of the hook is served as request c of the edge function: the body
\* the hook serialized is what req.json() returns, and the handler's response
\* is what supabase.functions.invoke resolves to.
Served == Calls \cap Requests

\* req.json(): a property JSON.stringify dropped reads as undefined
Received(sent) ==
    [f \in {"input_type", "title", "text_content", "user_id", "session_id"} |->
        IF f \in DOMAIN sent THEN sent[f] ELSE Undefined]

\* functions.invoke: a non-2xx response becomes a FunctionsHttpError and no
\* data, any other response its parsed body
Transport(response) ==
    IF response.status = 200
    THEN [data |-> response.body, error |-> NoData]
    ELSE [data |-> NoResponse,
          error |-> [name |-> "FunctionsHttpError", status |-> response.status,
                     message |-> ""]]

ServeCall ==
    \E c \in Served :
        /\ call[c].pc = "invoke"
        /\ HandlerReceive(c, Received(call[c].req.body))

DeliverResponse ==
    \E c \in Served :
        /\ handler[c].pc = "responded"
        /\ InvokeReply(c, Transport(handler[c].response))

\* (no step of a polling loop is listed: no loop is ever started here, which
\* is part of what is checked under this specification)
ComposedNext ==
    \/ DoSubmitStart
    \/ DoSessionReply
    \/ DoSubmitSession
    \/ ServeCall
    \/ DoHandlerGuestInserted
    \/ DoHandlerSessionInserted
    \/ DoHandlerInserted
    \/ DoHandlerAudited
    \/ DoHandlerNoKeyUpdated
    \/ DoHandlerFetched
    \/ DoHandlerAiErrorUpdated
    \/ DoHandlerCompletedUpdated
    \/ DoHandlerStatsUpdated
    \/ DoHandlerCompleted
    \/ DeliverResponse
    \/ DoSubmitResponse

SpecComposed == Init /\ [][ComposedNext]_vars

\* ===================================================== properties
\* the argument of the call that takes a step: kept by a rejected call,
\* a local of a running one
Started(c) == call[c].pc = "idle" /\ call'[c].pc # "idle"
Resumed(c, pc) == call[c].pc = pc /\ call'[c].pc # pc
ReturnedNull(c) == call'[c].pc = "returned" /\ call'[c].ret = NullRet

BlankTitle(data) == data # NoData /\ Trim(data.title) = <<>>

\* C1: a submitProblem call whose title is empty or whitespace-only returns
\* null with the validation message in error, and makes no network call: no
\* session lookup, no endpoint call, no polling loop, now or later.
C1_BlankTitleRejected ==
    /\ [][\A c \in Calls :
            (Started(c) /\ BlankTitle(call'[c].data))
                => /\ ReturnedNull(c)
                   /\ error' = "Problem title is required"
                   /\ result' = NoResult
                   /\ sessionLookups'[c] = 0 /\ invokes'[c] = 0 /\ loop'[c] = NoLoop]_vars
    /\ [](\A c \in Calls :
            (call[c].pc = "returned" /\ BlankTitle(call[c].data))
                => sessionLookups[c] = 0 /\ invokes[c] = 0 /\ loop[c] = NoLoop)

C1_Witness ==
    \E c \in Calls :
        /\ call[c].pc = "returned" /\ call[c].ret = NullRet
        /\ call[c].data # NoData /\ call[c].data.title = <<" ", " ">>
        /\ error = "Problem title is required"
        /\ sessionLookups[c] = 0 /\ invokes[c] = 0

\* the content fields of `data` that are not empty
NonEmptyContents(data) ==
    {f \in {"textContent", "imageData", "voiceUrl"} : Truthy(data[f])}

\* ... a textContent counting only if it is not blank
NonBlankContents(data) ==
    {f \in {"imageData", "voiceUrl"} : Truthy(data[f])}
    \cup (IF Truthy(OptTrim(data.textContent)) THEN {"textContent"} ELSE {})

\* the argument of the call c that returns in this step
ArgOf(c) == IF call[c].pc = "idle" THEN call'[c].data ELSE call[c].data

\* C2 as stated: every call with a title that is non-empty after trimming
\* and exactly one non-empty content field has issued exactly one endpoint
\* call when it returns.
C2_Original ==
    [][\A c \in Calls :
          (call[c].pc # "returned" /\ call'[c].pc = "returned"
           /\ Trim(ArgOf(c).title) # <<>>
           /\ Cardinality(NonEmptyContents(ArgOf(c))) = 1)
              => invokes'[c] = 1]_vars

LiveToken(session) == session # NoSession /\ session.access_token # ""

\* the identity of (session, user, isAuthenticated) can be resolved
Resolvable(session, user, flag) ==
    LET id == UserIdOf(user) IN
    IF LiveToken(session) THEN id # Undefined /\ isValidUUID(id)
    ELSE IF flag /\ id # Undefined THEN isValidUUID(id)
    ELSE IsGuestUser(user)

\* C2 (amended): a call whose title is non-empty after trimming, with exactly
\* one content field that is non-empty (a textContent: non-blank), is not
\* rejected by the validation; when its session lookup reports no error and
\* its identity resolves, it issues the endpoint call, with the trimmed title
\* in the body; no call issues more than one endpoint call.
C2_OneCallTrimmedTitle ==
    /\ [][\A c \in Calls :
            /\ (Started(c) /\ Trim(call'[c].data.title) # <<>>
                /\ Cardinality(NonBlankContents(call'[c].data)) = 1)
                  => call'[c].pc = "getSession" /\ invokes'[c] = 0
            /\ (Resumed(c, "gotSession")
                /\ Cardinality(NonBlankContents(call[c].data)) = 1
                /\ ~call[c].reply.error
                /\ Resolvable(call[c].reply.session, call[c].user, call[c].isAuthenticated))
                  => /\ call'[c].pc = "invoke"
                     /\ invokes'[c] = 1
                     /\ call'[c].req.body.title = Trim(call[c].data.title)
            /\ invokes'[c] # invokes[c] => Resumed(c, "gotSession")]_vars
    /\ [](\A c \in Calls :
            /\ invokes[c] <= 1
            /\ call[c].pc \in {"invoke", "gotResponse"} => invokes[c] = 1)

C2_Witness ==
    \E c \in Calls :
        /\ call[c].pc = "invoke" /\ invokes[c] = 1
        /\ call[c].data.title = <<" ", "a", " ">>
        /\ NonBlankContents(call[c].data) = {"voiceUrl"}
        /\ call[c].req.body.title = <<"a">>

\* the endpoint answered call c with a body that has success: true
SuccessReply(c) ==
    /\ call[c].pc = "gotResponse"
    /\ call[c].reply.error = NoData
    /\ call[c].reply.data # NoResponse
    /\ call[c].reply.data.success

\* C3: when the endpoint answers success with status "completed",
\* submitProblem starts no polling loop, returns the problemId when it has
\* one in UUID format, and no status query is ever issued for the call.
C3_CompletedNotPolled ==
    [][\A c \in Calls :
            /\ (SuccessReply(c) /\ call[c].reply.data.status = "completed"
                /\ Resumed(c, "gotResponse"))
                  => /\ loop'[c] = NoLoop
                     /\ (call[c].reply.data.problemId # Undefined
                         /\ isValidUUID(call[c].reply.data.problemId))
                           => /\ call'[c].ret = call[c].reply.data.problemId
                              /\ result'.status = "completed"
            /\ (call[c].pc = "returned" /\ loop[c] = NoLoop) => loop'[c] = NoLoop]_vars

C3_Witness ==
    \E c \in Calls :
        /\ call[c].pc = "returned" /\ call[c].ret = ProblemIdOf(c)
        /\ result # NoResult /\ result.status = "completed"
        /\ loop[c] = NoLoop

\* C4: when the endpoint answers success, with a problemId in UUID format
\* and status "processing" or "pending", submitProblem returns the problemId
\* and starts a polling loop for it with its first timer armed; a loop exists
\* and queries only for a call that has returned that problemId; and the
\* loop's first status query is eventually issued.
C4_PollingStarts ==
    /\ [][\A c \in Calls :
            (SuccessReply(c) /\ call[c].reply.data.status \in {"processing", "pending"}
             /\ call[c].reply.data.problemId # Undefined
             /\ isValidUUID(call[c].reply.data.problemId)
             /\ Resumed(c, "gotResponse"))
                => /\ call'[c].ret = call[c].reply.data.problemId
                   /\ loop'[c].phase = "timer"
                   /\ loop'[c].problemId = call[c].reply.data.problemId
                   /\ loop'[c].attempts = 0 /\ loop'[c].queries = 0]_vars
    /\ [](\A c \in Calls :
            loop[c] # NoLoop
                => call[c].pc = "returned" /\ call[c].ret = loop[c].problemId)
    /\ \A c \in Calls :
          (loop[c].phase = "timer" /\ loop[c].queries = 0) ~> (loop[c].queries >= 1)

C4_Witness ==
    \E c \in Calls :
        /\ loop[c].phase = "query" /\ loop[c].queries = 1 /\ loop[c].attempts = 0
        /\ call[c].ret = ProblemIdOf(c)
        /\ result # NoResult /\ result.status = "pending"

\* the status query of call c's loop returned a row (no error, nothing thrown)
RowReply(c) ==
    /\ loop[c].phase = "gotResult"
    /\ loop[c].reply.thrown = ""
    /\ loop[c].reply.error = NoData
    /\ loop[c].reply.data # NoRow

PollResumed(c) == loop[c].phase = "gotResult" /\ loop'[c] # loop[c]

\* C5: a loop issues at most 60 status queries. A non-terminal row makes
\* the loop schedule the next attempt as long as fewer than 60 queries were
\* issued; at the 60th it stops with the timeout message, and a stopped loop
\* never acts again, so a 61st query is never issued.
C5_SixtyAttempts ==
    /\ [](\A c \in Calls :
            /\ loop[c].queries <= 60
            /\ loop[c].phase \in {"timer", "session", "gotSession"}
                  => loop[c].queries = loop[c].attempts
            /\ loop[c].phase \in {"query", "gotResult"}
                  => loop[c].queries = loop[c].attempts + 1)
    /\ [][\A c \in Calls :
            /\ (RowReply(c) /\ PollResumed(c)
                /\ loop[c].reply.data.status \in {"pending", "processing"})
                  => IF loop[c].queries < 60
                     THEN loop'[c].phase = "timer" /\ loop'[c].queries = loop[c].queries
                     ELSE /\ loop'[c].phase = "stopped" /\ loop'[c].queries = 60
                          /\ error' = "Problem processing timed out. Please try again."
            /\ loop[c].phase = "stopped" => loop'[c] = loop[c]]_vars

C5_Witness ==
    \E c \in Calls :
        /\ loop[c].phase = "stopped" /\ loop[c].queries = 60 /\ loop[c].attempts = 60
        /\ error = "Problem processing timed out. Please try again."

\* the error text of a row: ai_response.error, else ai_response.message,
\* else error_message, else the default
ErrorTextOf(row) ==
    LET ai == row.ai_response IN
    IF ai # NoAi /\ ai.error \notin {"", Undef} THEN ai.error
    ELSE IF ai # NoAi /\ ai.message \notin {"", Undef} THEN ai.message
    ELSE IF row.error_message \notin {"", Undef} THEN row.error_message
    ELSE "Problem processing failed"

\* C6: when a polling attempt fetches a row with status "error", the loop
\* stops without another query (a stopped loop never acts again), and both
\* the exposed error and the errorMessage of the exposed result are the
\* row's error text.
C6_ErrorRowStopsLoop ==
    [][\A c \in Calls :
          /\ (RowReply(c) /\ PollResumed(c) /\ loop[c].reply.data.status = "error")
                => /\ loop'[c].phase = "stopped"
                   /\ loop'[c].queries = loop[c].queries
                   /\ error' = ErrorTextOf(loop[c].reply.data)
                   /\ result'.status = "error"
                   /\ result'.errorMessage = ErrorTextOf(loop[c].reply.data)
          /\ loop[c].phase = "stopped" => loop'[c] = loop[c]]_vars

C6_Witness ==
    \E c \in Calls :
        /\ loop[c].phase = "stopped"
        /\ result # NoResult /\ result.status = "error"
        /\ result.errorMessage = "ai message" /\ error = "ai message"

\* C7: when the session lookup of a call yields a live session with an access
\* token, then if the user's id is a valid UUID the call issues its one
\* endpoint call with user_id equal to that id and the header
\* 'Authorization: Bearer <access_token>'; otherwise it fails with the
\* authentication error and never calls the endpoint.
C7_LiveSession ==
    /\ [][\A c \in Calls :
            /\ (Resumed(c, "gotSession") /\ ~call[c].reply.error
                /\ LiveToken(call[c].reply.session))
                  => IF UserIdOf(call[c].user) # Undefined /\ isValidUUID(UserIdOf(call[c].user))
                     THEN /\ call'[c].pc = "invoke" /\ invokes'[c] = 1
                          /\ "user_id" \in DOMAIN call'[c].req.body
                          /\ call'[c].req.body.user_id = call[c].user.id
                          /\ call'[c].req.headers =
                               {<<"Authorization",
                                  "Bearer " \o call[c].reply.session.access_token>>}
                     ELSE /\ ReturnedNull(c)
                          /\ error' = "Invalid user session. Please sign in again."
                          /\ invokes'[c] = 0
            /\ call[c].pc = "returned" => invokes'[c] = invokes[c]]_vars
    /\ [](\A c \in Calls : invokes[c] <= 1)

C7_Witness ==
    \E c \in Calls :
        /\ call[c].pc = "invoke" /\ invokes[c] = 1
        /\ call[c].session = [access_token |-> Token]
        /\ call[c].req.body.user_id = UserId1
        /\ call[c].req.headers = {<<"Authorization", "Bearer tok">>}

\* the call was resolved as a guest's: no live session, not flagged
\* authenticated with an id, and user.isGuest
GuestCall(c) ==
    /\ IsGuestUser(call[c].user)
    /\ ~LiveToken(call[c].session)
    /\ ~(call[c].isAuthenticated /\ UserIdOf(call[c].user) \notin {Undefined, <<>>})

\* C8: a request sent for a guest has no user_id field at all, and a user_id
\* that a request carries is always the id of the caller's user: the client
\* mints no identity. The earlier revision of the hook builds the same body
\* for a guest.
C8_GuestOmitsUserId ==
    \A c \in Calls :
        call[c].pc \in {"invoke", "gotResponse"}
            => /\ GuestCall(c)
                     => /\ "user_id" \notin DOMAIN call[c].req.body
                        /\ LET id == LegacyResolveIdentity(call[c].user,
                                                           call[c].isAuthenticated)
                           IN id.ok /\ Serialize(RequestBody(call[c].data, id.userId))
                                          = call[c].req.body
               /\ "user_id" \in DOMAIN call[c].req.body
                     => call[c].req.body.user_id = UserIdOf(call[c].user)

C8_Witness ==
    \E c \in Calls :
        /\ call[c].pc = "invoke" /\ invokes[c] = 1
        /\ GuestCall(c)
        /\ DOMAIN call[c].req.body = {"input_type", "title", "text_content"}

\* C9: a call whose session lookup yields no live session, that is not
\* flagged authenticated with an id and is not a guest's, fails with 'Please
\* sign in to submit problems'. In that case, when the resolved identity is
\* not a valid UUID, and when the session lookup reports an error, the call
\* returns null with error set and isSubmitting false, without an endpoint
\* call then or later.
C9_AuthFailures ==
    [][\A c \in Calls :
          LET session == call[c].reply.session
              id == UserIdOf(call[c].user)
              flagged == call[c].isAuthenticated /\ id \notin {Undefined, <<>>}
              noIdentity == ~call[c].reply.error /\ ~LiveToken(session) /\ ~flagged
                            /\ ~IsGuestUser(call[c].user)
              badIdentity == /\ ~call[c].reply.error
                             /\ LiveToken(session) \/ flagged
                             /\ ~(id # Undefined /\ isValidUUID(id))
          IN
          /\ (Resumed(c, "gotSession") /\ noIdentity)
                => error' = "Please sign in to submit problems"
          /\ (Resumed(c, "gotSession") /\ (noIdentity \/ badIdentity \/ call[c].reply.error))
                => /\ ReturnedNull(c)
                   /\ error' # NoError
                   /\ isSubmitting' = FALSE
                   /\ invokes'[c] = 0
          /\ call[c].pc = "returned" => invokes'[c] = invokes[c]]_vars

C9_Witness ==
    \E c \in Calls :
        /\ call[c].pc = "returned" /\ call[c].ret = NullRet
        /\ error = "Please sign in to submit problems"
        /\ ~isSubmitting
        /\ sessionLookups[c] = 1 /\ invokes[c] = 0

StatusOf(row) == IF row = NoSubmission THEN "absent" ELSE row.status

\* C10: the status of a persisted row only moves forward: a row is never
\* removed, a completed or error row keeps its status, and a processing row
\* never goes back to pending, whatever write or AI call fails.
C10_StatusForwardOnly ==
    [][\A id \in ProblemIdPool :
          /\ StatusOf(submissions[id]) # "absent" => StatusOf(submissions'[id]) # "absent"
          /\ StatusOf(submissions[id]) \in {"completed", "error"}
                => StatusOf(submissions'[id]) = StatusOf(submissions[id])
          /\ StatusOf(submissions[id]) = "processing"
                => StatusOf(submissions'[id]) \in {"processing", "completed", "error"}]_vars

C10_Witness ==
    \E r \in Requests :
        /\ handler[r].pc = "responded" /\ handler[r].response.status = 500
        /\ handler[r].problemId # Undefined
        /\ StatusOf(submissions[handler[r].problemId]) = "error"

\* the fields of a persisted row the status is stated against
HasSolution(row) == Truthy(row.solution)
HasErrorMessage(row) == row.error_message # ""

\* C11: in every reachable state every persisted row has status completed
\* exactly if it has a non-empty solution and no error message, and status
\* error exactly if it has an error message.
C11_StatusMatchesFields ==
    \A id \in ProblemIdPool :
        submissions[id] # NoSubmission
            => /\ (submissions[id].status = "completed")
                     <=> (HasSolution(submissions[id]) /\ ~HasErrorMessage(submissions[id]))
               /\ (submissions[id].status = "error") <=> HasErrorMessage(submissions[id])

\* the positions of serve after its insert of the submission row succeeded
AfterInsert ==
    {"auditCreated", "updateNoKey", "fetch", "updateAiError", "updateCompleted",
     "sessionStats", "auditCompleted"}

\* C12: whenever the handler responds after its insert succeeded, the row it
\* inserted has status completed or error: it is never left as processing.
C12_TerminalBeforeResponse ==
    [][\A r \in Requests :
          (handler[r].pc \in AfterInsert /\ handler'[r].pc = "responded")
              => StatusOf(submissions'[handler[r].problemId]) \in {"completed", "error"}]_vars

\* serve found no GOOGLE_API_KEY and answers
NoKeyResponds(r) == handler[r].pc = "updateNoKey" /\ handler'[r].pc = "responded"

NoKeyRow(row) ==
    /\ StatusOf(row) = "error"
    /\ row.error_message = "AI service temporarily unavailable"

SuccessFields ==
    {"success", "problemId", "sessionId", "status", "solution", "subject",
     "difficulty", "tags"}

Answered(r) == handler[r].pc = "responded"

\* C14 as stated: every response (to a request that is not a preflight) is
\* either 200 with success:true and the success fields, or a non-200 status
\* with success:false and both an error and a details field.
C14_Original ==
    \A r \in Requests :
        (Answered(r) /\ "success" \in DOMAIN handler[r].response.body)
            => LET res == handler[r].response IN
               IF res.body.success
               THEN res.status = 200 /\ SuccessFields \subseteq DOMAIN res.body
               ELSE res.status # 200 /\ {"error", "details"} \subseteq DOMAIN res.body

\* C14 (amended): every response but the answer to a CORS preflight (200,
\* the text 'ok') is either 200 with success:true and the success fields, or
\* a non-200 status with success:false and an error field, together with a
\* details field when it comes from the catch block and with the problemId
\* (and no details) when the API key is missing or the AI answer is not ok.
\* No response has success:true with a non-200 status or success:false with
\* status 200.
C14_Envelopes ==
    \A r \in Requests :
        Answered(r)
            => LET res == handler[r].response IN
               IF "success" \notin DOMAIN res.body
               THEN res = [status |-> 200, body |-> [text |-> "ok"]]
               ELSE IF res.body.success
               THEN res.status = 200 /\ SuccessFields \subseteq DOMAIN res.body
               ELSE /\ res.status \in {500, 503}
                    /\ \/ DOMAIN res.body = {"success", "error", "details"}
                       \/ /\ DOMAIN res.body = {"success", "error", "problemId"}
                          /\ res.body.problemId \in ProblemIdPool
                          /\ StatusOf(submissions[res.body.problemId]) # "absent"

C14_Witness ==
    \E r \in Requests :
        /\ Answered(r)
        /\ handler[r].response.status = 500
        /\ DOMAIN handler[r].response.body = {"success", "error", "problemId"}
        /\ handler[r].response.body.error = "AI processing error: 500"

\* C15: within one polling loop the attempts are strictly sequential: at no
\* time is more than one timer pending or more than one query outstanding,
\* never both; a timer is armed only by the start of the loop or by the step
\* that processes the answer of the current attempt's query, and a query is
\* issued only when every earlier attempt of the loop has been processed.
C15_SequentialAttempts ==
    /\ [](\A c \in Calls :
            /\ loop[c].timers + loop[c].outstanding <= 1
            /\ loop[c].timers >= 0 /\ loop[c].outstanding >= 0
            /\ loop[c].phase \in {"none", "stopped"}
                  => loop[c].timers = 0 /\ loop[c].outstanding = 0)
    /\ [][\A c \in Calls :
            /\ loop'[c].timers > loop[c].timers
                  => \/ loop[c] = NoLoop
                     \/ /\ loop[c].phase = "gotResult"
                        /\ loop[c].outstanding = 0
                        /\ loop'[c].attempts = loop[c].attempts + 1
            /\ loop'[c].queries > loop[c].queries
                  => /\ loop[c].timers = 0 /\ loop[c].outstanding = 0
                     /\ loop[c].queries = loop[c].attempts
                     /\ loop'[c].queries = loop[c].queries + 1]_vars

C15_Witness ==
    \E c \in Calls :
        /\ loop[c].phase = "query" /\ loop[c].outstanding = 1 /\ loop[c].timers = 0
        /\ loop[c].attempts = 1 /\ loop[c].queries = 2

\* the status query of call c's loop failed: it threw, returned an error, or
\* returned no row
QueryFailed(c) ==
    /\ loop[c].phase = "gotResult"
    /\ \/ loop[c].reply.thrown # ""
       \/ loop[c].reply.error # NoData
       \/ loop[c].reply.data = NoRow

\* C16: when a status query of a loop throws, returns an error of any code,
\* or succeeds with no row, the step that processes it sets an error message
\* and stops the loop: no timer is armed, and the loop never issues another
\* query or changes again.
C16_QueryFailureStops ==
    [][\A c \in Calls :
          /\ (QueryFailed(c) /\ PollResumed(c))
                => /\ error' # NoError /\ error' # ""
                   /\ loop'[c].phase = "stopped"
                   /\ loop'[c].timers = 0 /\ loop'[c].outstanding = 0
                   /\ loop'[c].queries = loop[c].queries
                   /\ loop[c].reply.thrown = "" /\ loop[c].reply.error = NoData
                         => error' = "Problem not found. Please try submitting again."
          /\ loop[c].phase = "stopped"
                => loop'[c] = loop[c]]_vars

C16_Witness ==
    \E c \in Calls :
        /\ loop[c].phase = "stopped" /\ loop[c].queries = 1 /\ loop[c].timers = 0
        /\ error = "Failed to check problem status: Network request failed"

\* call c fails in this step: submitProblem returns null
SubmitFails(c) == call[c].pc # "returned" /\ ReturnedNull(c)

\* a polling attempt of call c's loop fails in this step: query error, thrown
\* query, missing row, a row with status error, or the timeout
PollFails(c) ==
    /\ PollResumed(c)
    /\ \/ QueryFailed(c)
       \/ /\ RowReply(c)
          /\ \/ loop[c].reply.data.status = "error"
             \/ /\ loop[c].reply.data.status \in {"pending", "processing"}
                /\ loop[c].attempts + 1 >= maxAttempts

\* C17 as stated: every failure of submitProblem or of a polling attempt
\* leaves a non-null error string and a null result.
C17_Original ==
    [][\A c \in Calls :
          (SubmitFails(c) \/ PollFails(c))
              => error' # NoError /\ result' = NoResult]_vars

\* C17 (amended): every failure of submitProblem or of a polling attempt
\* leaves a non-null error string, and nothing is thrown: the call returns
\* null, the loop stops. A call that fails validation leaves result null; a
\* call that fails later does not touch result, which it cleared when it
\* started. A failing polling attempt does not clear result: after a failed
\* query or a missing row it is what it was, after a row with status error
\* or pending/processing at the timeout it is the result built from that row.
C17_FailuresSetError ==
    [][\A c \in Calls :
          /\ SubmitFails(c)
                => /\ error' # NoError
                   /\ isSubmitting' = FALSE
                   /\ IF call[c].pc = "idle" THEN result' = NoResult ELSE result' = result
          /\ PollFails(c)
                => /\ error' # NoError
                   /\ loop'[c].phase = "stopped"
                   /\ IF QueryFailed(c) THEN result' = result
                      ELSE /\ result' # NoResult
                           /\ result'.id = loop[c].reply.data.id
                           /\ result'.status = loop[c].reply.data.status]_vars

C17_Witness ==
    \E c \in Calls :
        /\ loop[c].phase = "stopped"
        /\ error = "Problem not found or access denied."
        /\ result # NoResult /\ result.status = "pending"

\* the identity of the caller whose submission call c's loop polls
CallerOf(c) == UserIdOf(call[c].user)

\* C18: on every polling attempt made while a session is present, the status
\* query is filtered on user_id equal to the caller's identity, also when
\* that identity was not the one of the hook's first render.
C18_LookupFilteredByCaller ==
    [][\A c \in Calls :
          (loop[c].phase = "gotSession" /\ loop'[c].phase = "query"
           /\ loop[c].reply # NoSession /\ Truthy(CallerOf(c)))
              => loop'[c].userFilter = CallerOf(c)]_vars

\* C19: no read of problem_submissions by an authenticated identity returns
\* a row owned by another identity.
C19_ReadsOwnRowsOnly ==
    (lastRead # NoRead /\ lastRead.row # NoSubmission)
        => lastRead.row.user_id = lastRead.reader

\* C20: submitProblem calls made concurrently on one hook are not
\* deduplicated and their polling loops do not interfere: every call that
\* passes validation and identity resolution issues its own endpoint call,
\* whatever the other calls are doing; every loop polls the problemId its own
\* call received and issues at most 60 status queries, counted by its own
\* counter; a step of one call or loop changes no other call, loop or call
\* count.
C20_IndependentLoops ==
    /\ [](\A c \in ConcurrentCalls :
            /\ invokes[c] <= 1
            /\ loop[c].queries <= maxAttempts
            /\ loop[c].attempts <= loop[c].queries
            /\ loop[c] # NoLoop
                  => /\ loop[c].problemId = ProblemIdOf(c)
                     /\ call[c].ret = loop[c].problemId)
    /\ [][\A c \in ConcurrentCalls :
            /\ (Resumed(c, "gotSession") /\ ~call[c].reply.error
                /\ Resolvable(call[c].reply.session, call[c].user, call[c].isAuthenticated))
                  => call'[c].pc = "invoke" /\ invokes'[c] = 1
            /\ loop'[c].queries # loop[c].queries
                  => /\ loop[c].phase = "gotSession"
                     /\ loop'[c].queries = loop[c].queries + 1
            /\ (loop[c].phase = "gotResult" /\ loop'[c] # loop[c]
                /\ loop[c].reply.data.status = "pending")
                  => IF loop[c].attempts + 1 < maxAttempts
                     THEN loop'[c].phase = "timer"
                     ELSE loop'[c].phase = "stopped"
            /\ \A d \in ConcurrentCalls \ {c} :
                  (call'[c] # call[c] \/ loop'[c] # loop[c] \/ invokes'[c] # invokes[c])
                      => /\ call'[d] = call[d]
                         /\ loop'[d] = loop[d]
                         /\ invokes'[d] = invokes[d]]_vars

C20_Witness ==
    /\ invokes = [c \in ConcurrentCalls |-> 1]
    /\ \A c \in ConcurrentCalls : call[c].ret = ProblemIdOf(c)
    /\ loop[1].phase = "stopped" /\ loop[1].queries = maxAttempts
    /\ loop[2].phase = "query" /\ loop[2].queries = 2
    /\ loop[2].problemId # loop[1].problemId

\* C21: when the endpoint answers success: true with a problemId that is
\* missing or not in UUID format, the step of submitProblem that processes the
\* answer returns null, sets the format error, does not write result (which
\* is null when no other call was made) and starts no polling loop.
C21_BadProblemIdFails ==
    [][\A c \in Calls :
        (Resumed(c, "gotResponse") /\ SuccessReply(c)
         /\ (call[c].reply.data.problemId = Undefined
             \/ ~isValidUUID(call[c].reply.data.problemId)))
            => /\ ReturnedNull(c)
               /\ error' = (IF call[c].reply.data.problemId = Undefined
                            THEN "Invalid response from AI service: missing problem ID"
                            ELSE "Invalid response format from AI service")
               /\ result' = result
               /\ (\A d \in Calls \ {c} : call[d].pc = "idle") => result' = NoResult
               /\ loop' = loop
               /\ ~isSubmitting']_vars

C21_Witness ==
    \E c \in Calls :
        /\ call[c].pc = "returned" /\ call[c].ret = NullRet
        /\ error = "Invalid response format from AI service"
        /\ result = NoResult /\ loop[c] = NoLoop
        /\ invokes[c] = 1

\* a request body the handler must refuse: a required field is missing, or a
\* supplied user_id or session_id is not in UUID format
BadRequest(body) ==
    \/ ~Truthy(body.input_type)
    \/ ~Truthy(body.title)
    \/ (Truthy(body.user_id) /\ ~isValidUUID(body.user_id))
    \/ (Truthy(body.session_id) /\ ~isValidUUID(body.session_id))

Refused(r) ==
    /\ handler[r].pc = "responded"
    /\ handler[r].body # NoData
    /\ BadRequest(handler[r].body)

AuditRows(id, action) ==
    {i \in DOMAIN auditLog : auditLog[i] = [action |-> action, resource_id |-> id]}

AnsweredSuccess(r) ==
    /\ handler[r].pc = "responded"
    /\ "success" \in DOMAIN handler[r].response.body
    /\ handler[r].response.body.success

\* C23: a request answered with success: true has exactly one
\* 'problem_submission_created' audit row and one
\* 'problem_submission_completed' audit row for its submission, the first
\* before the second; a completion audit row exists only for a submission
\* row whose status is completed, so a request that ended in failure has none.
C23_AuditRowsInOrder ==
    /\ \A r \in Requests :
          AnsweredSuccess(r)
              => /\ Cardinality(AuditRows(handler[r].problemId,
                                          "problem_submission_created")) = 1
                 /\ Cardinality(AuditRows(handler[r].problemId,
                                          "problem_submission_completed")) = 1
                 /\ \A i \in AuditRows(handler[r].problemId, "problem_submission_created"),
                       j \in AuditRows(handler[r].problemId, "problem_submission_completed") :
                          i < j
    /\ \A id \in ProblemIdPool :
          AuditRows(id, "problem_submission_completed") # {}
              => submissions[id] # NoSubmission /\ submissions[id].status = "completed"

\* the part of C23 that the handler does keep: audit rows are never written
\* out of order or for a submission that is not completed
C23_Rest ==
    /\ \A id \in ProblemIdPool :
          /\ Cardinality(AuditRows(id, "problem_submission_created")) <= 1
          /\ Cardinality(AuditRows(id, "problem_submission_completed")) <= 1
          /\ \A i \in AuditRows(id, "problem_submission_created"),
                j \in AuditRows(id, "problem_submission_completed") : i < j
          /\ AuditRows(id, "problem_submission_completed") # {}
                => submissions[id] # NoSubmission /\ submissions[id].status = "completed"
    /\ \A r \in Requests :
          (handler[r].pc = "responded" /\ ~AnsweredSuccess(r)
           /\ handler[r].problemId # Undefined)
              => AuditRows(handler[r].problemId, "problem_submission_completed") = {}

\* the polling loop of call c has been started and has not ended
LoopActive(c) == loop[c].phase \notin {"none", "stopped"}

\* the row a status query returned to call c's loop is terminal
TerminalRow(c) ==
    /\ ~QueryFailed(c)
    /\ loop[c].reply.data.status \in {"completed", "error"}

C25_NonTerminalResultIsPolled ==
    \A c \in Calls :
        (/\ call[c].pc = "returned"
         /\ call[c].ret \notin {NullRet, NotReturned}
         /\ result # NoResult
         /\ result.id = call[c].ret
         /\ result.status \in {"pending", "processing"})
            => /\ loop[c] # NoLoop
               /\ loop[c].problemId = call[c].ret

\* the submitProblem calls that have been started, and the latest of them
\* (calls are started in the order of their numbers)
StartedCalls == {c \in ConcurrentCalls : call[c].pc # "idle"}
LatestCall == CHOOSE c \in StartedCalls : \A d \in StartedCalls : d <= c

\* C26: whenever the exposed result is non-null, it is the result of the
\* most recently started submitProblem call: an attempt of an earlier
\* submission's loop does not write result after a later call has reset it.
C26_ResultOfLatestCall ==
    (result # NoResult /\ StartedCalls # {})
        => result.id = ProblemIdOf(LatestCall)

\* a submitProblem call that has started and not yet returned
InFlight(c) == call[c].pc \notin {"idle", "returned"}

\* C27: isSubmitting is true exactly while some submitProblem call is in
\* flight, overlapping calls included.
C27_SubmittingWhileInFlight ==
    isSubmitting <=> (\E c \in ConcurrentCalls : InFlight(c))

\* the same for the calls of Spec, which are made one at a time
C27_Sequential ==
    isSubmitting <=> (\E c \in Calls : InFlight(c))

\* C28: the exposed result has status 'error' only together with a non-null
\* error string and an errorMessage in the result, whether the result was
\* written by a polling attempt or built from the endpoint's response.
C28_ErrorResultHasMessage ==
    (result # NoResult /\ result.status = "error")
        => /\ error # NoError
           /\ result.errorMessage # Undef

\* the part of C28 about polling: the attempt that reads an 'error' row
\* writes the result with its errorMessage and sets error in the same step
C28_PolledErrorHasMessage ==
    [][\A c \in Calls :
        (PollResumed(c) /\ ~QueryFailed(c) /\ loop[c].reply.data.status = "error")
            => /\ result'.status = "error"
               /\ result'.errorMessage # Undef /\ result'.errorMessage # ""
               /\ error' # NoError /\ error' # ""]_vars

\* the submission row request r created, if any
RowOf(r) ==
    IF handler[r].problemId = Undefined THEN NoSubmission
    ELSE submissions[handler[r].problemId]

\* C29: with the hook calling this handler, every success: true response
\* carries status 'completed' and the solution stored in the row; the hook,
\* on receiving it, returns the problemId with a completed result and starts
\* no polling loop, so no loop ever exists. Every response sent while the
\* request's row is processing or error has a non-200 status, and the hook
\* turns it into a failure (null returned, a transport error message, result
\* left null) that does not carry the problemId.
C29_ComposedWithHandler ==
    /\ [](\A c \in Served :
            /\ loop[c] = NoLoop
            /\ AnsweredSuccess(c)
                  => /\ handler[c].response.status = 200
                     /\ handler[c].response.body.status = "completed"
                     /\ RowOf(c) # NoSubmission
                     /\ RowOf(c).status = "completed"
                     /\ handler[c].response.body.solution = RowOf(c).solution
            /\ (handler[c].pc = "responded" /\ handler[c].body # NoData
                /\ handler[c].response.status = 200)
                  => AnsweredSuccess(c)
            /\ (handler[c].pc = "responded" /\ RowOf(c) # NoSubmission
                /\ RowOf(c).status \in {"processing", "error"})
                  => handler[c].response.status # 200)
    /\ [][\A c \in Served :
            Resumed(c, "gotResponse")
                => IF handler[c].response.status = 200
                   THEN /\ call'[c].ret = handler[c].problemId
                        /\ result'.id = handler[c].problemId
                        /\ result'.status = "completed"
                        /\ result'.solution = RowOf(c).solution
                        /\ loop' = loop
                   ELSE /\ ReturnedNull(c)
                        /\ error' = "AI service is temporarily unavailable. Please try again later."
                        /\ result' = result
                        /\ loop' = loop]_vars

C29_Witness ==
    \E c \in Served :
        /\ AnsweredSuccess(c)
        /\ call[c].pc = "returned" /\ call[c].ret = handler[c].problemId
        /\ result # NoResult /\ result.status = "completed"
        /\ RowOf(c).status = "completed"
        /\ loop[c] = NoLoop

\* no addTodo or fetchTodos call is in flight
TodoQuiet ==
    /\ \A k \in Adds : adding[k].pc \in {"idle", "returned"}
    /\ \A f \in Fetches : fetching[f].pc \in {"idle", "done"}

\* the rows inserted by the addTodo calls that have returned
InsertedTodos == {adding[k].row : k \in {j \in Adds : adding[j].row # NoTodo}}

NewestFirst(list) == \A i, j \in DOMAIN list : i < j => list[i].id > list[j].id

\* the part of C30 about the guard: an addTodo call made with an empty or
\* blank title, or without a user, returns at once without an insert
C30_NoInsertWhenBlank ==
    [][\A k \in Adds :
        (adding[k].pc = "idle" /\ adding'[k].pc # "idle"
         /\ (newTodoTitle \in {<<>>, <<" ">>} \/ screenUser = NoUser))
            => /\ adding'[k].pc = "returned"
               /\ adding'[k].row = NoTodo
               /\ todosTable' = todosTable]_vars

\* C30: addTodo inserts nothing for a blank title or without a user, and
\* once every addTodo and fetchTodos call has finished, the local list
\* contains every todo the addTodo calls inserted, newest first.
C30_NoTodoLost ==
    /\ C30_NoInsertWhenBlank
    /\ [](TodoQuiet
            => /\ \A row \in InsertedTodos : \E i \in DOMAIN todos : todos[i] = row
               /\ NewestFirst(todos))

====
